---- MODULE Spec2Model ----
(***************************************************************************)
(* Pagination core of dopecanvas: PageLayoutEngine.paginate, the          *)
(* split-aware paginator of PagedView (paginateHTML / rePaginateFromDOM), *)
(* the BlockSplitter (trySplitBlock, recombineSplitBlocks) and the block  *)
(* management handlers of PagedView.                                      *)
(*                                                                         *)
(* A block (one top-level element, i.e. one outerHTML string) is a record  *)
(*   tag  : "img" (atomic), "figure" (atomic, with element children),     *)
(*          "div" (container of element children),                        *)
(*          "p" (text block with one text node)                           *)
(*   id   : the element's own attributes (identity of the original block) *)
(*   bb,ba: style break-before: page / break-after: page                  *)
(*   h    : intrinsic height of an "img"                                  *)
(*   kids : heights of the element children of a "div" (stacked)          *)
(*   text : characters of the text node of a "p"                          *)
(*   sid  : data-dopecanvas-split-id (0 = attribute absent)               *)
(*   part : data-dopecanvas-split-part                                    *)
(*   kmark: per element child, the data-dopecanvas-split-id found in that *)
(*          child's markup (0 = none)                                     *)
(* A character is "a" (letter), " ", "\n", "tab" or "nbsp".                *)
(* Layout (the measurement oracle): children stack vertically without     *)
(* margins; text wraps every CharsPerLine characters into lines of        *)
(* LineHeight px.                                                          *)
(***************************************************************************)
EXTENDS Integers, Sequences, FiniteSets, TLC

\* ------------------------------------------------------------------ bounds
MaxBlocks == 2
MaxMeas == 3
MaxOps == 2
MaxParts == 3

\* ------------------------------------------------- layout oracle parameters
CharsPerLine == 2
LineHeight == 50
KidLists == { << 40, 40 >>, << 70, 40 >>, << 40, 40, 40 >>, << 40, 70, 40 >>,
              << 70, 70, 70 >> }
ImgHeights == {0, 40, 150}
MeasHeights == {0, 40, 60, 150}
Texts == { <<"a", "a", " ", "a", "a">>, <<"a", "a", "a", "a", "a">>, <<"a", " ", "a">> }
\* texts with leading whitespace and with a tab between words
EdgeTexts == { <<" ", "a", "a", "a">>, <<"a", "a", "tab", "a", "a", "a">> }
ContentHeights == {100}

\* ------------------------------------------------------- program constants
MIN_SPLIT_HEIGHT == 40
SPLIT_THRESHOLD == 60
UNSPLITTABLE_TAGS == {"script", "style", "img", "video", "canvas", "svg", "hr",
                      "iframe", "object", "embed", "audio", "picture", "figure"}
TEXT_BLOCK_TAGS == {"p", "h1", "h2", "h3", "h4", "h5", "h6", "blockquote",
                    "div", "li", "span", "td", "th", "pre", "code"}
MAX_UNDO_STACK == 100

VARIABLES
    measurements,   \* BlockMeasurement[] handed to PageLayoutEngine.paginate
    contentHeight,  \* layoutEngine.getContentAreaHeight()
    engResult,      \* PaginationResult of PageLayoutEngine.paginate
    blocks,         \* block list B fed to the split-aware paginator
    run1,           \* pages of the first split-aware run
    recombined,     \* recombineSplitBlocks(flatten(run1))
    run2,           \* pages of the run on the recombined list
    recombined2,    \* recombineSplitBlocks(recombined)
    phase,          \* position of the harness / of the view
    splitIdCounter, \* BlockSplitter's module-level counter
    pages,          \* PagedView `pages` state (PageData[] as rendered)
    pagesRef,       \* PagedView pagesRef.current
    dom,            \* live tree: per page, per block-content wrapper, its element children
    editingBlockIndex, \* PagedView editingBlockIndex state (-1 = null)
    timers,         \* number of pending setTimeout callbacks of the view's observers
    debounceTimer,  \* `debounceTimer` of the current observer effect:
                    \* "null", "pending" (handle of a pending timer) or "fired"
    isRePaginating, \* isRePaginatingRef.current
    pendingCursor,  \* pendingCursorRef.current is a saved caret
    rafPending,     \* number of requestAnimationFrame callbacks not yet run
    passResult,     \* outcome of the timer callback if it was the last handler to run:
                    \* "noop", "same", "commit"; "none" otherwise
    paginationOut,  \* last PaginationResult passed to onPaginationChange
    contentOut,     \* last block list passed to onContentChange
    currentHTMLRef, \* DopeCanvas currentHTMLRef.current
    ops,            \* number of user operations performed
    emAttached,     \* EditableManager: container and observer are set
    emHTML,         \* innerHTML of the EditableManager's container
    emTimers,       \* number of pending setTimeout callbacks of the EditableManager
    emDebounceTimer, \* EditableManager.debounceTimer: "null", "pending" or "fired"
    undoStack,      \* EditableManager.undoStack (the html of each snapshot)
    redoStack,      \* EditableManager.redoStack
    emCallbacks,    \* number of callbacks in EditableManager.changeCallbacks
    sourceHTML,     \* DocumentEngine.sourceHTML
    emNotified,     \* number of change callbacks invoked so far
    selection,      \* window.getSelection(): the caret, or NoSelection
    cursorState,    \* a CursorState held by the caller (null = NoCursor)
    returned        \* what the last call of the API under study returned

vars == << measurements, contentHeight, engResult, blocks, run1, recombined,
           run2, recombined2, phase, splitIdCounter, pages, pagesRef, dom,
           editingBlockIndex, timers, debounceTimer, isRePaginating, pendingCursor,
           rafPending, passResult, paginationOut, contentOut, currentHTMLRef, ops,
           emAttached, emHTML, emTimers, emDebounceTimer, undoStack, redoStack,
           emCallbacks, sourceHTML, emNotified, selection, cursorState, returned >>

\* variables of the harnesses / of the mounted view / of the EditableManager
harnessVars == << measurements, engResult, run1, recombined, run2, recombined2 >>
viewVars == << pages, pagesRef, dom, editingBlockIndex, timers, debounceTimer,
               isRePaginating, pendingCursor, rafPending, passResult, paginationOut,
               contentOut, currentHTMLRef, ops >>
emVars == << emAttached, emHTML, emTimers, emDebounceTimer, undoStack, redoStack,
             emCallbacks, sourceHTML, emNotified >>
apiVars == << selection, cursorState, returned >>

\* ------------------------------------------------------------------ helpers
RECURSIVE SumSeq(_)
SumSeq(s) == IF s = << >> THEN 0 ELSE Head(s) + SumSeq(Tail(s))

RECURSIVE Flatten(_)
Flatten(ss) == IF ss = << >> THEN << >> ELSE Head(ss) \o Flatten(Tail(ss))

\* F applied to the value of v, with v evaluated once
Bind(v, F(_)) == CHOOSE y \in { F(x) : x \in { v } } : TRUE

\* --------------------------------------------------------- layout oracle
\* number of lines of a text of n characters
Lines(n) == (n + CharsPerLine - 1) \div CharsPerLine

\* rect.height + marginTop + marginBottom of an element
Height(b) ==
    IF b.tag = "img" THEN b.h
    ELSE SumSeq(b.kids) + Lines(Len(b.text)) * LineHeight

\* top of the collapsed range at a character offset, relative to the block top
ProbeTop(offset) == (offset \div CharsPerLine) * LineHeight

\* --------------------------------------------- PageLayoutEngine.measureBlocks
measureBlocks(list) ==
    [ i \in 1..Len(list) |->
        [ index |-> i - 1, height |-> Height(list[i]), element |-> list[i],
          breakBefore |-> list[i].bb, breakAfter |-> list[i].ba ] ]

\* ------------------------------------------------ PageLayoutEngine.paginate
\* `currentHeight + block.height > contentHeight && currentPage.length > 0`
OverflowsNoGuard(currentHeight, height, CH, currentPage) ==
    currentHeight + height > CH

OverflowsLate(currentHeight, height, CH, currentPage) ==
    currentHeight > CH /\ Len(currentPage) > 0

OverflowsGe(currentHeight, height, CH, currentPage) ==
    currentHeight + height >= CH /\ Len(currentPage) > 0

Overflows(currentHeight, height, CH, currentPage) ==
    currentHeight + height > CH /\ Len(currentPage) > 0

\* `block.breakBefore && currentPage.length > 0`
ForcesBreakBeforeMutant(block, currentPage) == FALSE

ForcesBreakBefore(block, currentPage) ==
    block.breakBefore /\ Len(currentPage) > 0

\* one iteration of the for loop; st = [pages, currentPage, currentHeight]
EngineStep(st, block, CH) ==
    LET s1 == IF ForcesBreakBefore(block, st.currentPage)
              THEN [ pages |-> Append(st.pages, [blockIndices |-> st.currentPage]),
                     currentPage |-> << >>, currentHeight |-> 0 ]
              ELSE st
        s2 == IF Overflows(s1.currentHeight, block.height, CH, s1.currentPage)
              THEN [ pages |-> Append(s1.pages, [blockIndices |-> s1.currentPage]),
                     currentPage |-> << >>, currentHeight |-> 0 ]
              ELSE s1
        s3 == [ pages |-> s2.pages,
                currentPage |-> Append(s2.currentPage, block.index),
                currentHeight |-> s2.currentHeight + block.height ]
    IN  IF block.breakAfter
        THEN [ pages |-> Append(s3.pages, [blockIndices |-> s3.currentPage]),
               currentPage |-> << >>, currentHeight |-> 0 ]
        ELSE s3

RECURSIVE EngineLoop(_, _, _, _)
EngineLoop(ms, CH, i, st) ==
    IF i > Len(ms) THEN st
    ELSE Bind(EngineStep(st, ms[i], CH), LAMBDA s : EngineLoop(ms, CH, i + 1, s))

paginate(ms, CH) ==
    IF Len(ms) = 0
    THEN [ pages |-> << [blockIndices |-> << >>] >>, pageCount |-> 1 ]
    ELSE Bind(EngineLoop(ms, CH, 1,
                  [ pages |-> << >>, currentPage |-> << >>, currentHeight |-> 0 ]),
              LAMBDA st :
                LET p1 == IF Len(st.currentPage) > 0
                          THEN Append(st.pages, [blockIndices |-> st.currentPage])
                          ELSE st.pages
                    p2 == IF Len(p1) = 0 THEN << [blockIndices |-> << >>] >> ELSE p1
                IN  [ pages |-> p2, pageCount |-> Len(p2) ])

\* ------------------------------------------------------------ BlockSplitter
NoSplit == [ ok |-> FALSE ]

\* the test of the child loop: `childBottom > availableHeight && i > 0`
\* (i is the 0-based child index)
ChildCrossesMutant(childBottom, availableHeight, i) ==
    childBottom >= availableHeight /\ i > 0

ChildCrosses(childBottom, availableHeight, i) ==
    childBottom > availableHeight /\ i > 0

\* Strategy 1: split at child element boundaries
splitAtChildBoundary(element, children, availableHeight, id) ==
    LET childBottom(k) == SumSeq(SubSeq(children, 1, k))
        hits == { k \in 1..Len(children) :
                    ChildCrosses(childBottom(k), availableHeight, k - 1) }
    IN  IF hits = {} THEN NoSplit
        ELSE LET splitIndex == (CHOOSE k \in hits : \A m \in hits : k <= m) - 1
             IN  IF splitIndex <= 0 THEN NoSplit
                 ELSE [ ok |-> TRUE,
                        firstHTML |-> [ element EXCEPT
                            !.kids = SubSeq(children, 1, splitIndex),
                            !.kmark = SubSeq(element.kmark, 1, splitIndex),
                            !.sid = id, !.part = 0 ],
                        secondHTML |-> [ element EXCEPT
                            !.kids = SubSeq(children, splitIndex + 1, Len(children)),
                            !.kmark = SubSeq(element.kmark, splitIndex + 1,
                                             Len(children)),
                            !.sid = id, !.part = 1 ] ]

\* the binary search of splitAtTextBoundary for the crossing offset
RECURSIVE BinarySearch(_, _, _)
BinarySearch(lo, hi, availableHeight) ==
    IF lo < hi
    THEN LET mid == (lo + hi) \div 2
         IN  IF ProbeTop(mid) >= availableHeight
             THEN BinarySearch(lo, mid, availableHeight)
             ELSE BinarySearch(mid + 1, hi, availableHeight)
    ELSE lo

IsSpace(c) == c = " " \/ c = "\n"

\* `while (wordBound > 0 && text[wordBound-1] is no blank) wordBound--`
RECURSIVE WordBound(_, _)
WordBound(text, wordBound) ==
    IF wordBound > 0 /\ ~IsSpace(text[wordBound])
    THEN WordBound(text, wordBound - 1)
    ELSE wordBound

\* s.trim().length === 0  (trim also removes tabs and the no-break space)
IsBlankMutant(s) == FALSE

IsBlank(s) == \A k \in 1..Len(s) : s[k] \in {" ", "\n", "tab", "nbsp"}

\* Strategy 2: split at text line boundary (one text node per text block)
splitAtTextBoundary(element, availableHeight, id) ==
    LET text == element.text
        len == Len(text)
    IN  IF len = 0 THEN NoSplit
        ELSE IF Lines(len) * LineHeight <= availableHeight THEN NoSplit
        ELSE LET found == IF 0 >= availableHeight THEN 0
                          ELSE BinarySearch(0, len, availableHeight)
                 wb == WordBound(text, found)
                 splitOffset == IF wb > 0 THEN wb ELSE found
                 firstText == SubSeq(text, 1, splitOffset)
                 secondText == SubSeq(text, splitOffset + 1, len)
             IN  IF splitOffset = 0 THEN NoSplit
                 ELSE IF splitOffset >= len THEN NoSplit
                 ELSE IF IsBlank(firstText) \/ IsBlank(secondText) THEN NoSplit
                 ELSE [ ok |-> TRUE,
                        firstHTML |-> [ element EXCEPT
                            !.text = firstText, !.sid = id, !.part = 0 ],
                        secondHTML |-> [ element EXCEPT
                            !.text = secondText, !.sid = id, !.part = 1 ] ]

\* `UNSPLITTABLE_TAGS.has(tag)`
IsUnsplittableTagMutant(tag) == FALSE

IsUnsplittableTag(tag) == tag \in UNSPLITTABLE_TAGS

\* computed style break-before: page / page-break-before: always
IsPageBreakMarker(element) == element.bb

\* id is the value nextSplitId() returns if a split is made
trySplitBlock(element, availableHeight, id) ==
    IF IsUnsplittableTag(element.tag) THEN NoSplit
    ELSE IF availableHeight < MIN_SPLIT_HEIGHT THEN NoSplit
    ELSE IF IsPageBreakMarker(element) THEN NoSplit
    ELSE LET children == element.kids
             r1 == IF Len(children) > 1
                   THEN splitAtChildBoundary(element, children, availableHeight, id)
                   ELSE NoSplit
         IN  IF r1.ok THEN r1
             ELSE IF element.tag \in TEXT_BLOCK_TAGS
                     \/ Len(element.kids) + Len(element.text) > 0
                  THEN splitAtTextBoundary(element, availableHeight, id)
                  ELSE NoSplit

\* one call of trySplitBlock from the module state `counter`: nextSplitId()
\* returns `split-${++splitIdCounter}-...` when a split is made; the result
\* and the module-level counter after the call
callTrySplitBlock(element, availableHeight, counter) ==
    LET r == trySplitBlock(element, availableHeight, counter + 1)
    IN  [ result |-> r, counter |-> IF r.ok THEN counter + 1 ELSE counter ]

\* first non-zero entry of a sequence of marks, 0 if there is none
RECURSIVE FirstMark(_)
FirstMark(marks) ==
    IF marks = << >> THEN 0
    ELSE IF Head(marks) # 0 THEN Head(marks)
    ELSE FirstMark(Tail(marks))

\* html.match(/data-dopecanvas-split-id="([^"]+)"/): the first occurrence in the
\* markup, on the element itself or else on a descendant
extractSplitId(html) == FirstMark(<< html.sid >> \o html.kmark)

\* `container.innerHTML = partHTML; el = container.firstElementChild`: markup
\* that holds no element (tag "#text") gives no el
Parses(partHTML) == partHTML.tag # "#text"

\* innerHTML of all parts that parse, inside the first such part's element
\* without the markers; parts[0] when no part parses
mergeBlockParts(parts) ==
    LET els == SelectSeq(parts, Parses)
    IN  IF els = << >> THEN parts[1]
        ELSE [ els[1] EXCEPT
                 !.sid = 0, !.part = 0,
                 !.kids = Flatten([ k \in 1..Len(els) |-> els[k].kids ]),
                 !.kmark = Flatten([ k \in 1..Len(els) |-> els[k].kmark ]),
                 !.text = Flatten([ k \in 1..Len(els) |-> els[k].text ]) ]

\* `nextId === splitId` in the inner loop of recombineSplitBlocks
SameSplitIdMutant(nextId, splitId) == FALSE

SameSplitId(nextId, splitId) == nextId = splitId

\* end (exclusive) of the run of parts starting at i
RECURSIVE RunEnd(_, _, _)
RunEnd(blockHTMLs, j, splitId) ==
    IF j <= Len(blockHTMLs) /\ SameSplitId(extractSplitId(blockHTMLs[j]), splitId)
    THEN RunEnd(blockHTMLs, j + 1, splitId)
    ELSE j

RECURSIVE RecombineFrom(_, _, _)
RecombineFrom(blockHTMLs, i, result) ==
    IF i > Len(blockHTMLs) THEN result
    ELSE LET html == blockHTMLs[i]
             splitId == extractSplitId(html)
         IN  IF splitId = 0
             THEN RecombineFrom(blockHTMLs, i + 1, Append(result, html))
             ELSE LET j == RunEnd(blockHTMLs, i + 1, splitId)
                  IN  RecombineFrom(blockHTMLs, j,
                          Append(result, mergeBlockParts(SubSeq(blockHTMLs, i, j - 1))))

recombineSplitBlocks(blockHTMLs) ==
    IF Len(blockHTMLs) = 0 THEN blockHTMLs
    ELSE RecombineFrom(blockHTMLs, 1, << >>)

\* ------------------------------------- split-aware paginator (PagedView loop)
\* queue built from the measurements
buildQueue(ms) ==
    [ k \in 1..Len(ms) |->
        [ html |-> ms[k].element, height |-> ms[k].height, element |-> ms[k].element,
          breakBefore |-> ms[k].breakBefore, breakAfter |-> ms[k].breakAfter ] ]

\* the queue item spliced in for the second half of a split
secondItem(block, secondHTML) ==
    [ html |-> secondHTML, height |-> Height(secondHTML), element |-> secondHTML,
      breakBefore |-> FALSE, breakAfter |-> block.breakAfter ]

\* queue.splice(i + 1, 0, item)   (i is the 1-based position of the current block)
spliceAfter(queue, i, item) ==
    SubSeq(queue, 1, i) \o << item >> \o SubSeq(queue, i + 1, Len(queue))

\* `block.breakAfter && currentPage.length > 0`
ForcesBreakAfterMutant(block, currentPage) == FALSE

ForcesBreakAfter(block, currentPage) ==
    block.breakAfter /\ Len(currentPage) > 0

closePage(st) ==
    [ st EXCEPT !.pages = Append(st.pages, st.currentPage),
                !.currentPage = << >>, !.currentHeight = 0 ]

\* the split without `queue.splice(i + 1, 0, ...)`
placeSplitMutant(queue, i, st, block, splitResult) ==
    [ queue |-> queue,
      st |-> [ pages |-> Append(st.pages, Append(st.currentPage, splitResult.firstHTML)),
               currentPage |-> << >>, currentHeight |-> 0,
               counter |-> st.counter + 1 ] ]

\* first half on the current page, page closed, second half queued
placeSplit(queue, i, st, block, splitResult) ==
    [ queue |-> spliceAfter(queue, i, secondItem(block, splitResult.secondHTML)),
      st |-> [ pages |-> Append(st.pages, Append(st.currentPage, splitResult.firstHTML)),
               currentPage |-> << >>, currentHeight |-> 0,
               counter |-> st.counter + 1 ] ]

\* `pages.push(currentPage); currentPage = [block.html]; currentHeight = block.height`
moveToNextPageMutant(st, block) ==
    [ st EXCEPT !.pages = Append(st.pages, st.currentPage),
                !.currentPage = << >>,
                !.currentHeight = 0 ]

moveToNextPage(st, block) ==
    [ st EXCEPT !.pages = Append(st.pages, st.currentPage),
                !.currentPage = << block.html >>,
                !.currentHeight = block.height ]

\* `currentPage.length > 0 && remainingSpace >= 60`
WorthSplittingMutant(currentPage, remainingSpace) ==
    Len(currentPage) > 0 /\ remainingSpace >= MIN_SPLIT_HEIGHT

WorthSplitting(currentPage, remainingSpace) ==
    Len(currentPage) > 0 /\ remainingSpace >= SPLIT_THRESHOLD

\* one iteration of the while loop; returns the queue and the loop variables
SplitStep(queue, CH, i, st0) ==
    LET block == queue[i]
        st == IF ForcesBreakBefore(block, st0.currentPage) THEN closePage(st0) ELSE st0
        remainingSpace == CH - st.currentHeight
        placed ==
            IF block.height <= remainingSpace
            THEN [ queue |-> queue,
                   st |-> [ st EXCEPT !.currentPage = Append(st.currentPage, block.html),
                                      !.currentHeight = st.currentHeight + block.height ] ]
            ELSE IF WorthSplitting(st.currentPage, remainingSpace)
            THEN LET splitResult == trySplitBlock(block.element, remainingSpace,
                                                  st.counter + 1)
                 IN  IF splitResult.ok
                     THEN placeSplit(queue, i, st, block, splitResult)
                     ELSE [ queue |-> queue, st |-> moveToNextPage(st, block) ]
            ELSE IF Len(st.currentPage) > 0
            THEN [ queue |-> queue, st |-> moveToNextPage(st, block) ]
            ELSE LET splitResult == trySplitBlock(block.element, CH, st.counter + 1)
                 IN  IF splitResult.ok
                     THEN placeSplit(queue, i, st, block, splitResult)
                     ELSE [ queue |-> queue,
                            st |-> [ st EXCEPT
                                !.pages = Append(st.pages,
                                                 Append(st.currentPage, block.html)),
                                !.currentPage = << >>, !.currentHeight = 0 ] ]
    IN  IF ForcesBreakAfter(block, placed.st.currentPage)
        THEN [ queue |-> placed.queue, st |-> closePage(placed.st) ]
        ELSE placed

RECURSIVE SplitLoop(_, _, _, _)
SplitLoop(queue, CH, i, st) ==
    IF i > Len(queue) THEN st
    ELSE Bind(SplitStep(queue, CH, i, st),
              LAMBDA r : SplitLoop(r.queue, CH, i + 1, r.st))

\* measure + loop + tail of paginateHTML / rePaginateFromDOM:
\* the pages (string[][]) and the counter after the run
paginateList(list, CH, counter) ==
    Bind(SplitLoop(buildQueue(measureBlocks(list)), CH, 1,
             [ pages |-> << >>, currentPage |-> << >>, currentHeight |-> 0,
               counter |-> counter ]),
         LAMBDA st :
           LET p1 == IF Len(st.currentPage) > 0 THEN Append(st.pages, st.currentPage)
                     ELSE st.pages
               p2 == IF Len(p1) = 0 THEN << << >> >> ELSE p1
           IN  [ pages |-> p2, counter |-> st.counter ])

\* per-page block counts (`pagesRef.current.map((p) => p.blocks.length)`)
Dist(pgs) == [ k \in 1..Len(pgs) |-> Len(pgs[k]) ]

\* PaginationResult passed to onPaginationChange by paginateHTML
paginationResultOf(pgs) ==
    [ pages |-> [ k \in 1..Len(pgs) |->
                    [ blockIndices |-> [ j \in 1..Len(pgs[k]) |-> j - 1 ] ] ],
      pageCount |-> Len(pgs) ]

\* ------------------------------------------------------------ input spaces
mkBlock(tag, id, bb, ba, h, kids, text) ==
    [ tag |-> tag, id |-> id, bb |-> bb, ba |-> ba, h |-> h, kids |-> kids,
      text |-> text, sid |-> 0, part |-> 0, kmark |-> [ k \in 1..Len(kids) |-> 0 ] ]

\* the shapes a fresh (never split) block can have
FreshBlocks ==
    { mkBlock("img", 0, bb, ba, h, << >>, << >>) :
        bb \in BOOLEAN, ba \in BOOLEAN, h \in ImgHeights }
    \cup { mkBlock("div", 0, bb, ba, 0, kids, << >>) :
        bb \in BOOLEAN, ba \in BOOLEAN, kids \in KidLists }
    \cup { mkBlock("p", 0, bb, ba, 0, << >>, text) :
        bb \in BOOLEAN, ba \in BOOLEAN, text \in Texts }
    \cup { mkBlock("p", 0, FALSE, FALSE, 0, << >>, text) : text \in EdgeTexts }
    \cup { mkBlock("figure", 0, FALSE, FALSE, 0, << 70, 70, 70 >>, << >>) }

\* the block list of the shapes f[1..n]; block k carries identity k
BlockList(f, n) == [ k \in 1..n |-> [ f[k] EXCEPT !.id = k ] ]

\* the measurement list of the triples f[1..n]
MeasList(f, n) ==
    [ i \in 1..n |-> [ index |-> i - 1, height |-> f[i][1], breakBefore |-> f[i][2],
                       breakAfter |-> f[i][3] ] ]

NoResult == [ pages |-> << >>, pageCount |-> 0 ]

\* the paged view before its first pagination (useState / useRef initial values)
ViewUnmounted ==
    /\ pages = << >>
    /\ pagesRef = << >>
    /\ dom = << >>
    /\ editingBlockIndex = -1
    /\ timers = 0
    /\ debounceTimer = "null"
    /\ isRePaginating = FALSE
    /\ pendingCursor = FALSE
    /\ rafPending = 0
    /\ passResult = "none"
    /\ paginationOut = NoResult
    /\ contentOut = << >>
    /\ currentHTMLRef = blocks
    /\ ops = 0

\* a new EditableManager inside a new DocumentEngine (field initialisers)
EditableDetached ==
    /\ emAttached = FALSE
    /\ emHTML = 0
    /\ emTimers = 0
    /\ emDebounceTimer = "null"
    /\ undoStack = << >>
    /\ redoStack = << >>
    /\ emCallbacks = 0
    /\ sourceHTML = 0
    /\ emNotified = 0

NoSelection == [ w |-> -1, node |-> 0, off |-> 0 ]
NoCursor == [ blockIndex |-> -1, textOffset |-> 0 ]
NoReturn == [ call |-> "none" ]

\* no caret, no saved caret, no call made yet
ApiIdle ==
    /\ selection = NoSelection
    /\ cursorState = NoCursor
    /\ returned = NoReturn

\* ----------------------------------------------------- harness of the engine
\* the two engine scenarios of the specification, at their literal sizes
Scenario1 ==
    [ i \in 1..3 |-> [ index |-> i - 1, height |-> 200 + 100 * i,
                       breakBefore |-> FALSE, breakAfter |-> FALSE ] ]

Scenario2 == << mkBlock("img", 1, FALSE, FALSE, 1500, << >>, << >>) >>

InitEngine ==
    /\ \/ /\ \E n \in 0..MaxMeas :
                \E f \in [1..n -> MeasHeights \X BOOLEAN \X BOOLEAN] :
                    measurements = MeasList(f, n)
          /\ contentHeight \in ContentHeights
       \/ /\ measurements = Scenario1
          /\ contentHeight = 1000
    /\ engResult = NoResult
    /\ blocks = << >>
    /\ run1 = << >>
    /\ recombined = << >>
    /\ run2 = << >>
    /\ recombined2 = << >>
    /\ phase = "init"
    /\ splitIdCounter = 0
    /\ ViewUnmounted
    /\ EditableDetached
    /\ ApiIdle

\* PageLayoutEngine.paginate(measurements)
EnginePaginate ==
    /\ phase = "init"
    /\ engResult' = paginate(measurements, contentHeight)
    /\ phase' = "engine"
    /\ UNCHANGED << measurements, contentHeight, blocks, run1, recombined, run2,
                    recombined2, splitIdCounter, viewVars, emVars, apiVars >>

NextEngine == EnginePaginate

SpecEngine == InitEngine /\ [][NextEngine]_vars

\* ------------------------------------- harness of the split-aware paginator
InitPaginate ==
    /\ \/ /\ \E n \in 0..MaxBlocks :
                \E f \in [1..n -> FreshBlocks] : blocks = BlockList(f, n)
          /\ contentHeight \in ContentHeights
       \/ /\ blocks = Scenario2
          /\ contentHeight = 1000
    /\ measurements = measureBlocks(blocks)
    /\ engResult = NoResult
    /\ run1 = << >>
    /\ recombined = << >>
    /\ run2 = << >>
    /\ recombined2 = << >>
    /\ phase = "init"
    /\ splitIdCounter = 0
    /\ ViewUnmounted
    /\ EditableDetached
    /\ ApiIdle

\* first run of the loop of paginateHTML on B
RunFirst ==
    /\ phase = "engine"
    /\ \E r \in { paginateList(blocks, contentHeight, splitIdCounter) } :
           /\ run1' = r.pages
           /\ splitIdCounter' = r.counter
    /\ phase' = "run1"
    /\ UNCHANGED << measurements, contentHeight, engResult, blocks, recombined, run2,
                    recombined2, viewVars, emVars, apiVars >>

\* recombineSplitBlocks on the fragments of all pages in page order
RunRecombine ==
    /\ phase = "run1"
    /\ recombined' = recombineSplitBlocks(Flatten(run1))
    /\ phase' = "recombined"
    /\ UNCHANGED << measurements, contentHeight, engResult, blocks, run1, run2,
                    recombined2, splitIdCounter, viewVars, emVars, apiVars >>

\* second run of the loop (rePaginateFromDOM) on the recombined list
RunSecond ==
    /\ phase = "recombined"
    /\ \E r \in { paginateList(recombined, contentHeight, splitIdCounter) } :
           /\ run2' = r.pages
           /\ splitIdCounter' = r.counter
    /\ phase' = "run2"
    /\ UNCHANGED << measurements, contentHeight, engResult, blocks, run1, recombined,
                    recombined2, viewVars, emVars, apiVars >>

NextPaginate == EnginePaginate \/ RunFirst \/ RunRecombine \/ RunSecond

SpecPaginate == InitPaginate /\ [][NextPaginate]_vars

\* ------------------------------------------- harness of recombineSplitBlocks
\* (splitId, part) pairs a block's own element can carry
OwnMarks == { << 0, 0 >>, << 1, 0 >>, << 1, 1 >>, << 2, 0 >>, << 2, 1 >> }

\* the shapes of the blocks of a collected list: a paragraph, a container of one
\* child whose markup may hold a marker of its own, or markup without an element
\* (text that holds the marker attribute)
PartShapes ==
    { [ mkBlock("p", 0, FALSE, FALSE, 0, << >>, << "a" >>)
          EXCEPT !.sid = m[1], !.part = m[2] ] : m \in OwnMarks }
    \cup { [ mkBlock("div", 0, FALSE, FALSE, 0, << 40 >>, << >>)
               EXCEPT !.sid = m[1], !.part = m[2], !.kmark = << n >> ] :
             m \in OwnMarks, n \in 0..2 }
    \cup { [ mkBlock("#text", 0, FALSE, FALSE, 0, << >>, << "a" >>)
               EXCEPT !.sid = s ] : s \in 1..2 }

\* the list of the shapes f[1..n]; block k carries identity k and content k
PartList(f, n) ==
    [ k \in 1..n |->
        [ f[k] EXCEPT !.id = k,
                      !.kids = IF f[k].tag = "div" THEN << k >> ELSE << >> ] ]

InitRecombine ==
    /\ \E n \in 0..MaxParts : \E f \in [1..n -> PartShapes] : blocks = PartList(f, n)
    /\ contentHeight \in ContentHeights
    /\ measurements = << >>
    /\ engResult = NoResult
    /\ run1 = << >>
    /\ recombined = << >>
    /\ run2 = << >>
    /\ recombined2 = << >>
    /\ phase = "init"
    /\ splitIdCounter = 0
    /\ ViewUnmounted
    /\ EditableDetached
    /\ ApiIdle

\* recombineSplitBlocks(L)
Recombine ==
    /\ phase = "init"
    /\ recombined' = recombineSplitBlocks(blocks)
    /\ phase' = "once"
    /\ UNCHANGED << measurements, contentHeight, engResult, blocks, run1, run2,
                    recombined2, splitIdCounter, viewVars, emVars, apiVars >>

\* recombineSplitBlocks(recombineSplitBlocks(L))
RecombineAgain ==
    /\ phase = "once"
    /\ recombined2' = recombineSplitBlocks(recombined)
    /\ phase' = "twice"
    /\ UNCHANGED << measurements, contentHeight, engResult, blocks, run1, recombined,
                    run2, splitIdCounter, viewVars, emVars, apiVars >>

NextRecombine == Recombine \/ RecombineAgain

SpecRecombine == InitRecombine /\ [][NextRecombine]_vars

\* ================================================================ PagedView
\* the block-content wrappers of the live tree in document order
Wrappers(d) == Flatten(d)

\* a child node of a wrapper is an element, or a text node (tag "#text") that
\* the user typed straight into the editable wrapper
IsElement(node) == node.tag # "#text"

\* `div.children`: the element children of a wrapper, text nodes left out
ElementChildren(div) == SelectSeq(div, IsElement)

\* collectBlocksFromDOM: firstElementChild of every wrapper that has one
RECURSIVE FirstChildren(_)
FirstChildren(ws) ==
    IF ws = << >> THEN << >>
    ELSE (IF Len(ElementChildren(Head(ws))) > 0
          THEN << ElementChildren(Head(ws))[1] >> ELSE << >>)
         \o FirstChildren(Tail(ws))

collectBlocksFromDOM(d) == FirstChildren(Wrappers(d))

\* `wrapper = document.createElement('div'); wrapper.innerHTML = div.innerHTML`
\* (the children become the opaque element children of a new div)
wrapDiv(children) ==
    [ mkBlock("div", 0, FALSE, FALSE, 0,
              [ k \in 1..Len(children) |-> Height(children[k]) ], << >>)
      EXCEPT !.kmark = [ k \in 1..Len(children) |-> extractSplitId(children[k]) ] ]

\* the collection loop of collectHTMLFromDOM and rePaginateFromDOM
RECURSIVE CollectRaw(_)
CollectRaw(ws) ==
    IF ws = << >> THEN << >>
    ELSE (IF Len(ElementChildren(Head(ws))) = 0 THEN << >>
          ELSE IF Len(ElementChildren(Head(ws))) = 1
               THEN << ElementChildren(Head(ws))[1] >>
          ELSE << wrapDiv(Head(ws)) >>)
         \o CollectRaw(Tail(ws))

\* React commit of a new `pages` state: a wrapper whose key (page, slot) and html
\* prop are unchanged is left untouched (React.memo), any other gets its innerHTML set
render(oldPages, oldDom, newPages) ==
    [ p \in 1..Len(newPages) |->
        [ k \in 1..Len(newPages[p]) |->
            IF p <= Len(oldPages) /\ k <= Len(oldPages[p])
               /\ oldPages[p][k] = newPages[p][k]
            THEN oldDom[p][k]
            ELSE << newPages[p][k] >> ] ]

\* Array.prototype.splice(start, 0, item) / splice(start, 1), start >= 0
spliceInsert(list, start, item) ==
    LET at == IF start > Len(list) THEN Len(list) ELSE start
    IN  SubSeq(list, 1, at) \o << item >> \o SubSeq(list, at + 1, Len(list))

spliceDelete(list, start) ==
    IF start >= Len(list) THEN list
    ELSE SubSeq(list, 1, start) \o SubSeq(list, start + 2, Len(list))

\* '<p style="min-height: 1.5em; line-height: 1.6;">&nbsp;</p>'
NewBlock == mkBlock("p", 0, FALSE, FALSE, 0, << >>, << "nbsp" >>)

\* '<div style="break-before: page;"></div>'
PAGE_BREAK_HTML == mkBlock("div", 0, TRUE, FALSE, 0, << >>, << >>)

isPageBreakBlock(blockHTML) == blockHTML.bb

\* documents the view is mounted with
ViewDocs ==
    { << mkBlock("div", 1, FALSE, FALSE, 0, << 40, 70, 40 >>, << >>) >>,
      << mkBlock("img", 1, FALSE, FALSE, 40, << >>, << >>),
         mkBlock("div", 2, FALSE, FALSE, 0, << 70, 40 >>, << >>) >>,
      << mkBlock("p", 1, FALSE, TRUE, 0, << >>, << "a", "a", " ", "a", "a" >>),
         mkBlock("img", 2, FALSE, FALSE, 40, << >>, << >>) >>,
      << mkBlock("img", 1, FALSE, FALSE, 40, << >>, << >>),
         mkBlock("img", 2, TRUE, FALSE, 40, << >>, << >>) >>,
      << mkBlock("img", 1, FALSE, FALSE, 150, << >>, << >>) >>,
      << >> }

InitView ==
    /\ blocks \in ViewDocs
    /\ contentHeight \in ContentHeights
    /\ measurements = << >>
    /\ engResult = NoResult
    /\ run1 = << >>
    /\ recombined = << >>
    /\ run2 = << >>
    /\ recombined2 = << >>
    /\ phase = "init"
    /\ splitIdCounter = 0
    /\ ViewUnmounted
    /\ EditableDetached
    /\ ApiIdle

\* `if (debounceTimer) clearTimeout(debounceTimer)`: the number of pending timers
\* after the call (clearing a fired timer is a no-op)
clearTimeoutMutant(handle, pending) == pending

clearTimeout(handle, pending) == IF handle = "pending" THEN pending - 1 ELSE pending

\* `if (pendingCursorRef.current) { requestAnimationFrame(...) }`: the number
\* of frame callbacks pending after the observer effect ran
requestFramesMutant(cursor) == rafPending

requestFrames(cursor) == IF cursor THEN rafPending + 1 ELSE rafPending

\* the observer effect after a commit of a new `pages` state: cleanup of the
\* previous run (clearTimeout of its debounceTimer), a new closure with
\* debounceTimer = null, then the caret restore is scheduled or the flag is cleared
observerEffect(cursor, flag) ==
    /\ timers' = clearTimeout(debounceTimer, timers)
    /\ debounceTimer' = "null"
    /\ pendingCursor' = cursor
    /\ rafPending' = requestFrames(cursor)
    /\ isRePaginating' = IF cursor THEN flag ELSE FALSE

\* paginateHTML(htmlContent), the commit of the pages state it sets and the
\* observer effect that follows the commit
paginateHTML(htmlContent) ==
    \E r \in { paginateList(htmlContent, contentHeight, splitIdCounter) } :
        /\ splitIdCounter' = r.counter
        /\ pagesRef' = r.pages
        /\ pages' = r.pages
        /\ dom' = render(pages, dom, r.pages)
        /\ paginationOut' = paginationResultOf(r.pages)
        /\ contentOut' = htmlContent
        /\ currentHTMLRef' = htmlContent
        /\ passResult' = "none"
        /\ observerEffect(pendingCursor, isRePaginating)

\* runPagination: the effect that runs on mount with the html prop
RunPagination ==
    /\ phase = "init"
    /\ paginateHTML(blocks)
    /\ phase' = "mounted"
    /\ UNCHANGED << contentHeight, blocks, harnessVars, editingBlockIndex, ops, emVars, apiVars >>

\* what typing in a block can turn it into: one more or one less child / word
EditVariants(b) ==
    IF b.tag = "div"
    THEN { [ b EXCEPT !.kids = Append(b.kids, 70), !.kmark = Append(b.kmark, 0) ] }
         \cup { [ b EXCEPT !.kids = SubSeq(b.kids, 1, Len(b.kids) - 1),
                            !.kmark = SubSeq(b.kmark, 1, Len(b.kids) - 1) ] :
                  x \in { y \in {1} : Len(b.kids) >= 2 } }
    ELSE IF b.tag = "p"
    THEN { [ b EXCEPT !.text = b.text \o << " ", "a" >> ] }
         \cup { [ b EXCEPT !.text = SubSeq(b.text, 1, Len(b.text) - 1) ] :
                  x \in { y \in {1} : Len(b.text) >= 2 } }
    ELSE { }

\* the element children of a wrapper after an edit of its single element b: the
\* edited element, or (Enter pressed in a paragraph) the paragraph and a new
\* sibling paragraph that the browser creates with the same attributes, or no
\* element at all (the user deleted the block's content), or a bare text node
\* (the user deleted the element and typed into the editable wrapper)
TypedText == mkBlock("#text", 0, FALSE, FALSE, 0, << >>, << "a" >>)

WrapperEdits(b) ==
    { << nb >> : nb \in EditVariants(b) }
    \cup { << b, [ b EXCEPT !.text = << "a" >> ] >> : x \in { y \in {1} : b.tag = "p" } }
    \cup { << >> }
    \cup { << TypedText >> : x \in { y \in {1} : IsElement(b) } }

\* the MutationObserver callback of the view
observerCallback ==
    IF isRePaginating
    THEN UNCHANGED << timers, debounceTimer >>
    ELSE /\ timers' = clearTimeout(debounceTimer, timers) + 1
         /\ debounceTimer' = "pending"

\* the user edits the element of one wrapper of the live tree; the
\* MutationObserver callback runs
UserEdit ==
    /\ phase = "mounted"
    /\ ops < MaxOps
    /\ \E p \in 1..Len(dom) : \E k \in 1..Len(dom[p]) :
          /\ Len(dom[p][k]) = 1
          /\ \E w \in WrapperEdits(dom[p][k][1]) :
                dom' = [ dom EXCEPT ![p][k] = w ]
    /\ observerCallback
    /\ passResult' = "none"
    /\ ops' = ops + 1
    /\ UNCHANGED << contentHeight, blocks, harnessVars, phase, splitIdCounter, pages,
                    pagesRef, editingBlockIndex, isRePaginating, pendingCursor,
                    rafPending, paginationOut, contentOut, currentHTMLRef, emVars, apiVars >>

\* `oldDist.length !== newDist.length || oldDist.some((count, i) => count !== newDist[i])`
pageStructureChangedMutant(oldDist, newDist) == Len(oldDist) # Len(newDist)

pageStructureChanged(oldDist, newDist) ==
    \/ Len(oldDist) # Len(newDist)
    \/ \E i \in 1..Len(oldDist) : oldDist[i] # newDist[i]

\* the debounce timer fires: collectHTMLFromDOM(); rePaginateFromDOM().
\* cursor: saveCursorPosition found the caret inside a block wrapper
TimerFire ==
    /\ phase = "mounted"
    /\ timers > 0
    /\ \E rawBlockHTMLs \in { CollectRaw(Wrappers(dom)) } :
           /\ contentOut' = rawBlockHTMLs
           /\ currentHTMLRef' = rawBlockHTMLs
           /\ IF Len(rawBlockHTMLs) = 0
              THEN /\ timers' = timers - 1
                   /\ debounceTimer' = "fired"
                   /\ passResult' = "noop"
                   /\ UNCHANGED << splitIdCounter, pages, pagesRef, dom, paginationOut,
                                   isRePaginating, pendingCursor, rafPending >>
              ELSE \E r \in { paginateList(recombineSplitBlocks(rawBlockHTMLs),
                                           contentHeight, splitIdCounter) } :
                   /\ splitIdCounter' = r.counter
                   /\ pagesRef' = r.pages
                   /\ IF pageStructureChanged(Dist(pagesRef), Dist(r.pages))
                      THEN /\ pages' = r.pages
                           /\ dom' = render(pages, dom, r.pages)
                           /\ paginationOut' =
                                 [ pages |-> [ k \in 1..Len(r.pages) |->
                                                 [blockIndices |-> << >>] ],
                                   pageCount |-> Len(r.pages) ]
                           /\ passResult' = "commit"
                           /\ \E cursor \in BOOLEAN :
                                 /\ timers' = timers - 1
                                 /\ debounceTimer' = "null"
                                 /\ pendingCursor' = cursor
                                 /\ rafPending' = requestFrames(cursor)
                                 /\ isRePaginating' = cursor
                      ELSE /\ timers' = timers - 1
                           /\ debounceTimer' = "fired"
                           /\ passResult' = "same"
                           /\ UNCHANGED << pages, dom, paginationOut, isRePaginating,
                                           pendingCursor, rafPending >>
    /\ UNCHANGED << contentHeight, blocks, harnessVars, phase, editingBlockIndex, ops,
                    emVars, apiVars >>

\* the requestAnimationFrame callback without `isRePaginatingRef.current = false`
AnimationFrameMutant ==
    /\ phase = "mounted"
    /\ rafPending > 0
    /\ rafPending' = rafPending - 1
    /\ pendingCursor' = FALSE
    /\ passResult' = "none"
    /\ UNCHANGED << contentHeight, blocks, harnessVars, phase, splitIdCounter, pages,
                    pagesRef, dom, editingBlockIndex, timers, debounceTimer,
                    isRePaginating, paginationOut, contentOut, currentHTMLRef, ops,
                    emVars, apiVars >>

\* the requestAnimationFrame callback scheduled by the observer effect
AnimationFrame ==
    /\ phase = "mounted"
    /\ rafPending > 0
    /\ rafPending' = rafPending - 1
    /\ pendingCursor' = FALSE
    /\ isRePaginating' = FALSE
    /\ passResult' = "none"
    /\ UNCHANGED << contentHeight, blocks, harnessVars, phase, splitIdCounter, pages,
                    pagesRef, dom, editingBlockIndex, timers, debounceTimer,
                    paginationOut, contentOut, currentHTMLRef, ops, emVars, apiVars >>

\* the value DopeCanvasHandle.getHTML() returns in paged mode
getHTML ==
    IF Len(Wrappers(dom)) > 0 /\ Len(CollectRaw(Wrappers(dom))) > 0
    THEN CollectRaw(Wrappers(dom))
    ELSE currentHTMLRef

\* DopeCanvasHandle.getHTML()
GetHTML ==
    /\ phase = "mounted"
    /\ currentHTMLRef' = getHTML
    /\ passResult' = "none"
    /\ UNCHANGED << contentHeight, blocks, harnessVars, phase, splitIdCounter, pages,
                    pagesRef, dom, editingBlockIndex, timers, debounceTimer,
                    isRePaginating, pendingCursor, rafPending, paginationOut,
                    contentOut, ops, emVars, apiVars >>

\* global indices of the rendered blocks that show a BlockToolbar
ToolbarIndices ==
    { g \in 0..Len(Flatten(pages)) - 1 : ~isPageBreakBlock(Flatten(pages)[g + 1]) }

\* handleAddBlock(globalIndex)
AddBlock ==
    /\ phase = "mounted"
    /\ ops < MaxOps
    /\ \E globalIndex \in ToolbarIndices :
          paginateHTML(spliceInsert(collectBlocksFromDOM(dom), globalIndex + 1, NewBlock))
    /\ ops' = ops + 1
    /\ UNCHANGED << contentHeight, blocks, harnessVars, phase, editingBlockIndex, emVars, apiVars >>

\* handleDeleteBlock(globalIndex)
DeleteBlock ==
    /\ phase = "mounted"
    /\ ops < MaxOps
    /\ Len(collectBlocksFromDOM(dom)) > 1
    /\ \E globalIndex \in 0..Len(Flatten(pages)) - 1 :
          paginateHTML(spliceDelete(collectBlocksFromDOM(dom), globalIndex))
    /\ ops' = ops + 1
    /\ UNCHANGED << contentHeight, blocks, harnessVars, phase, editingBlockIndex, emVars, apiVars >>

\* handleOpenEditor(globalIndex)
OpenEditor ==
    /\ phase = "mounted"
    /\ ops < MaxOps
    /\ editingBlockIndex = -1
    /\ \E globalIndex \in ToolbarIndices :
          /\ globalIndex < Len(collectBlocksFromDOM(dom))
          /\ editingBlockIndex' = globalIndex
    /\ passResult' = "none"
    /\ ops' = ops + 1
    /\ UNCHANGED << contentHeight, blocks, harnessVars, phase, splitIdCounter, pages,
                    pagesRef, dom, timers, debounceTimer, isRePaginating, pendingCursor,
                    rafPending, paginationOut, contentOut, currentHTMLRef, emVars, apiVars >>

\* the HTML the user saves: the edited block, its markers kept, or a new image
SavedHTML(b) == EditVariants(b) \cup { mkBlock("img", 0, FALSE, FALSE, 40, << >>, << >>) }

\* handleSaveHTML(newHTML)
SaveHTML ==
    /\ phase = "mounted"
    /\ editingBlockIndex # -1
    /\ LET list == collectBlocksFromDOM(dom)
       IN  IF editingBlockIndex < Len(list)
           THEN \E newHTML \in SavedHTML(list[editingBlockIndex + 1]) :
                    paginateHTML([ list EXCEPT ![editingBlockIndex + 1] = newHTML ])
           ELSE paginateHTML(list)
    /\ editingBlockIndex' = -1
    /\ UNCHANGED << contentHeight, blocks, harnessVars, phase, ops, emVars, apiVars >>

\* handleCancelEditor
CancelEditor ==
    /\ phase = "mounted"
    /\ editingBlockIndex # -1
    /\ editingBlockIndex' = -1
    /\ passResult' = "none"
    /\ UNCHANGED << contentHeight, blocks, harnessVars, phase, splitIdCounter, pages,
                    pagesRef, dom, timers, debounceTimer, isRePaginating, pendingCursor,
                    rafPending, paginationOut, contentOut, currentHTMLRef, ops, emVars, apiVars >>

\* insertPageBreak: after the wrapper that holds the caret, or at the end
InsertPageBreak ==
    /\ phase = "mounted"
    /\ ops < MaxOps
    /\ LET list == collectBlocksFromDOM(dom)
       IN  \E insertIdx \in { Len(list) } \cup 1..Len(Wrappers(dom)) :
               paginateHTML(spliceInsert(list, insertIdx, PAGE_BREAK_HTML))
    /\ ops' = ops + 1
    /\ UNCHANGED << contentHeight, blocks, harnessVars, phase, editingBlockIndex, emVars, apiVars >>

\* ====================================== EditableManager under DocumentEngine
\* the documents a user edit can leave in the container
EmHTMLs == 0..2

\* pushUndoSnapshot without `if (undoStack.length > MAX_UNDO_STACK) undoStack.shift()`
pushUndoSnapshotMutant(html, undo, redo) ==
    IF Len(undo) > 0 /\ undo[Len(undo)] = html
    THEN [ undo |-> undo, redo |-> redo ]
    ELSE [ undo |-> Append(undo, html), redo |-> << >> ]

\* EditableManager.pushUndoSnapshot: the undo and redo stacks after the call
pushUndoSnapshot(html, undo, redo) ==
    IF Len(undo) > 0 /\ undo[Len(undo)] = html
    THEN [ undo |-> undo, redo |-> redo ]
    ELSE LET pushed == Append(undo, html)
         IN  [ undo |-> IF Len(pushed) > MAX_UNDO_STACK THEN Tail(pushed) ELSE pushed,
               redo |-> << >> ]

\* DocumentEngine.attachEditing(container): EditableManager.attach (detach of the
\* previous attachment, first snapshot, observer) and one more onChange callback
AttachEditing ==
    /\ phase \in {"init", "editing"}
    /\ emCallbacks < MaxOps
    /\ emAttached' = TRUE
    /\ emTimers' = clearTimeout(emDebounceTimer, emTimers)
    /\ emDebounceTimer' = "null"
    /\ \E st \in { pushUndoSnapshot(emHTML, undoStack, redoStack) } :
          /\ undoStack' = st.undo
          /\ redoStack' = st.redo
    /\ emCallbacks' = emCallbacks + 1
    /\ phase' = "editing"
    /\ UNCHANGED << contentHeight, blocks, harnessVars, apiVars, splitIdCounter, pages, pagesRef,
                    dom, editingBlockIndex, timers, debounceTimer, isRePaginating,
                    pendingCursor, rafPending, passResult, paginationOut, contentOut,
                    currentHTMLRef, ops, emHTML, sourceHTML, emNotified >>

\* the user edits the attached container; EditableManager.handleMutations runs
EmMutation ==
    /\ phase = "editing"
    /\ emAttached
    /\ ops < MaxOps
    /\ \E html \in EmHTMLs \ { emHTML } : emHTML' = html
    /\ emTimers' = clearTimeout(emDebounceTimer, emTimers) + 1
    /\ emDebounceTimer' = "pending"
    /\ ops' = ops + 1
    /\ UNCHANGED << contentHeight, blocks, harnessVars, apiVars, phase, splitIdCounter, pages,
                    pagesRef, dom, editingBlockIndex, timers, debounceTimer,
                    isRePaginating, pendingCursor, rafPending, passResult,
                    paginationOut, contentOut, currentHTMLRef, emAttached, undoStack,
                    redoStack, emCallbacks, sourceHTML, emNotified >>

\* the EditableManager's debounce timer fires: pushUndoSnapshot(); notifyChange()
\* (each DocumentEngine callback stores container.innerHTML in sourceHTML)
EmTimerFire ==
    /\ phase = "editing"
    /\ emTimers > 0
    /\ emTimers' = emTimers - 1
    /\ emDebounceTimer' = "fired"
    /\ IF emAttached
       THEN \E st \in { pushUndoSnapshot(emHTML, undoStack, redoStack) } :
               /\ undoStack' = st.undo
               /\ redoStack' = st.redo
       ELSE UNCHANGED << undoStack, redoStack >>
    /\ emNotified' = emNotified + emCallbacks
    /\ sourceHTML' = IF emCallbacks > 0 THEN emHTML ELSE sourceHTML
    /\ UNCHANGED << contentHeight, blocks, harnessVars, apiVars, phase, splitIdCounter, pages,
                    pagesRef, dom, editingBlockIndex, timers, debounceTimer,
                    isRePaginating, pendingCursor, rafPending, passResult,
                    paginationOut, contentOut, currentHTMLRef, ops, emAttached, emHTML,
                    emCallbacks >>

\* detach() without `clearTimeout(this.debounceTimer)`
DetachMutant ==
    /\ phase = "editing"
    /\ emAttached
    /\ ops < MaxOps
    /\ emAttached' = FALSE
    /\ emTimers' = emTimers
    /\ emDebounceTimer' = "null"
    /\ ops' = ops + 1
    /\ UNCHANGED << contentHeight, blocks, harnessVars, apiVars, phase, splitIdCounter, pages,
                    pagesRef, dom, editingBlockIndex, timers, debounceTimer,
                    isRePaginating, pendingCursor, rafPending, passResult,
                    paginationOut, contentOut, currentHTMLRef, emHTML, undoStack,
                    redoStack, emCallbacks, sourceHTML, emNotified >>

\* EditableManager.detach() (DocumentEngine.setContentContainer / destroy)
Detach ==
    /\ phase = "editing"
    /\ emAttached
    /\ ops < MaxOps
    /\ emAttached' = FALSE
    /\ emTimers' = clearTimeout(emDebounceTimer, emTimers)
    /\ emDebounceTimer' = "null"
    /\ ops' = ops + 1
    /\ UNCHANGED << contentHeight, blocks, harnessVars, apiVars, phase, splitIdCounter, pages,
                    pagesRef, dom, editingBlockIndex, timers, debounceTimer,
                    isRePaginating, pendingCursor, rafPending, passResult,
                    paginationOut, contentOut, currentHTMLRef, emHTML, undoStack,
                    redoStack, emCallbacks, sourceHTML, emNotified >>

\* EditableManager.undo(): the value returned and the container and stacks
\* after the call (attached = the manager has a container)
undo(attached, html, undoS, redoS) ==
    IF ~attached \/ Len(undoS) <= 1
    THEN [ value |-> FALSE, html |-> html, undo |-> undoS, redo |-> redoS ]
    ELSE LET popped == SubSeq(undoS, 1, Len(undoS) - 1)
         IN  [ value |-> TRUE, html |-> popped[Len(popped)], undo |-> popped,
               redo |-> Append(redoS, undoS[Len(undoS)]) ]

\* EditableManager.redo()
redo(attached, html, undoS, redoS) ==
    IF ~attached \/ Len(redoS) = 0
    THEN [ value |-> FALSE, html |-> html, undo |-> undoS, redo |-> redoS ]
    ELSE [ value |-> TRUE, html |-> redoS[Len(redoS)],
           undo |-> Append(undoS, redoS[Len(redoS)]),
           redo |-> SubSeq(redoS, 1, Len(redoS) - 1) ]

\* the manager's fields after undo() / redo() returned r; notifyChange() ran
\* when the call returned true
EmCallDone(call, r) ==
    /\ emHTML' = r.html
    /\ undoStack' = r.undo
    /\ redoStack' = r.redo
    /\ emNotified' = IF r.value THEN emNotified + emCallbacks ELSE emNotified
    /\ sourceHTML' = IF r.value /\ emCallbacks > 0 THEN r.html ELSE sourceHTML
    /\ returned' = [ call |-> call, value |-> r.value ]

\* EditableManager.undo() on the manager of a DocumentEngine
Undo ==
    /\ phase = "editing"
    /\ ops < MaxOps
    /\ \E r \in { undo(emAttached, emHTML, undoStack, redoStack) } :
          EmCallDone("undo", r)
    /\ ops' = ops + 1
    /\ UNCHANGED << contentHeight, blocks, harnessVars, phase, splitIdCounter, pages,
                    pagesRef, dom, editingBlockIndex, timers, debounceTimer,
                    isRePaginating, pendingCursor, rafPending, passResult,
                    paginationOut, contentOut, currentHTMLRef, emAttached, emTimers,
                    emDebounceTimer, emCallbacks, selection, cursorState >>

\* EditableManager.redo() on the manager of a DocumentEngine
Redo ==
    /\ phase = "editing"
    /\ ops < MaxOps
    /\ \E r \in { redo(emAttached, emHTML, undoStack, redoStack) } :
          EmCallDone("redo", r)
    /\ ops' = ops + 1
    /\ UNCHANGED << contentHeight, blocks, harnessVars, phase, splitIdCounter, pages,
                    pagesRef, dom, editingBlockIndex, timers, debounceTimer,
                    isRePaginating, pendingCursor, rafPending, passResult,
                    paginationOut, contentOut, currentHTMLRef, emAttached, emTimers,
                    emDebounceTimer, emCallbacks, selection, cursorState >>

\* DopeCanvasHandle.undo(): `undo: () => editableManager.undo()` on the manager
\* DopeCanvas made with `new EditableManager()`; DopeCanvas never attaches it
HandleUndo ==
    /\ phase = "mounted"
    /\ \E r \in { undo(emAttached, emHTML, undoStack, redoStack) } :
          EmCallDone("undo", r)
    /\ passResult' = "none"
    /\ UNCHANGED << contentHeight, blocks, harnessVars, phase, splitIdCounter, pages,
                    pagesRef, dom, editingBlockIndex, timers, debounceTimer,
                    isRePaginating, pendingCursor, rafPending, paginationOut,
                    contentOut, currentHTMLRef, ops, emAttached, emTimers,
                    emDebounceTimer, emCallbacks, selection, cursorState >>

\* DopeCanvasHandle.redo(): `redo: () => editableManager.redo()`
HandleRedo ==
    /\ phase = "mounted"
    /\ \E r \in { redo(emAttached, emHTML, undoStack, redoStack) } :
          EmCallDone("redo", r)
    /\ passResult' = "none"
    /\ UNCHANGED << contentHeight, blocks, harnessVars, phase, splitIdCounter, pages,
                    pagesRef, dom, editingBlockIndex, timers, debounceTimer,
                    isRePaginating, pendingCursor, rafPending, paginationOut,
                    contentOut, currentHTMLRef, ops, emAttached, emTimers,
                    emDebounceTimer, emCallbacks, selection, cursorState >>

\* ------------------------- harness of the undo history of an attached manager
\* the snapshots left by n - 1 debounced edits that switch between two documents
Snapshots(n) == [ i \in 1..n |-> i % 2 ]

\* lengths of the undo history at the start: short, and at the limit
HistoryLengths == { 1, 2, MAX_UNDO_STACK - 1, MAX_UNDO_STACK }

\* an attached manager whose last edit has been snapshotted
InitUndo ==
    /\ blocks = << >>
    /\ contentHeight \in ContentHeights
    /\ measurements = << >>
    /\ engResult = NoResult
    /\ run1 = << >>
    /\ recombined = << >>
    /\ run2 = << >>
    /\ recombined2 = << >>
    /\ phase = "editing"
    /\ splitIdCounter = 0
    /\ ViewUnmounted
    /\ ApiIdle
    /\ emAttached = TRUE
    /\ \E n \in HistoryLengths :
          /\ undoStack = Snapshots(n)
          /\ emHTML = Snapshots(n)[n]
          /\ sourceHTML = Snapshots(n)[n]
    /\ redoStack = << >>
    /\ emTimers = 0
    /\ emDebounceTimer = "null"
    /\ emCallbacks = 1
    /\ emNotified = 0

NextUndo ==
    \/ AttachEditing
    \/ EmMutation
    \/ EmTimerFire
    \/ Detach
    \/ Undo
    \/ Redo

SpecUndo == InitUndo /\ [][NextUndo]_vars

\* ------------------------------------- harness of the caret save / restore
MaxCursorBlock == 3
MaxTextOffset == 6

\* lengths of the text nodes below a block-content wrapper, in document order
\* (TreeWalker with NodeFilter.SHOW_TEXT; Range.toString walks the same nodes)
RECURSIVE TextNodes(_)
TextNodes(wrapper) ==
    IF wrapper = << >> THEN << >>
    ELSE (IF Len(Head(wrapper).text) > 0 THEN << Len(Head(wrapper).text) >>
          ELSE << >>)
         \o TextNodes(Tail(wrapper))

\* a caret outside the pages container
OutsideSelection == [ w |-> -2, node |-> 0, off |-> 0 ]

\* the carets inside the wrappers: w is the 0-based index of the wrapper, node
\* the text node that holds the caret and off the offset in it; node 0 is the
\* wrapper element itself with the caret after its last child
Selections(wrappers) ==
    { [ w |-> i - 1, node |-> 0, off |-> 0 ] : i \in 1..Len(wrappers) }
    \cup UNION { UNION { { [ w |-> i - 1, node |-> k, off |-> o ] :
                             o \in 0..TextNodes(wrappers[i])[k] } :
                         k \in 1..Len(TextNodes(wrappers[i])) } :
                 i \in 1..Len(wrappers) }

\* preRange.toString().length: the characters of the wrapper before the caret
textOffsetOf(wrappers, sel) ==
    LET nodes == TextNodes(wrappers[sel.w + 1])
    IN  IF sel.node = 0 THEN SumSeq(nodes)
        ELSE SumSeq(SubSeq(nodes, 1, sel.node - 1)) + sel.off

saveCursorPosition(wrappers, sel) ==
    IF sel = NoSelection THEN NoCursor
    ELSE IF sel.w < 0 \/ sel.w >= Len(wrappers) THEN NoCursor
    ELSE [ blockIndex |-> sel.w, textOffset |-> textOffsetOf(wrappers, sel) ]

\* `state.blockIndex >= wrappers.length`
OutOfRangeMutant(blockIndex, length) == blockIndex > length

OutOfRange(blockIndex, length) == blockIndex >= length

\* the while loop of restoreCursorPosition over the text nodes from node k on
RECURSIVE WalkText(_, _, _, _)
WalkText(nodes, k, remaining, w) ==
    IF k > Len(nodes) THEN [ w |-> w, node |-> 0, off |-> 0 ]
    ELSE IF remaining <= nodes[k] THEN [ w |-> w, node |-> k, off |-> remaining ]
    ELSE WalkText(nodes, k + 1, remaining - nodes[k], w)

\* the selection after restoreCursorPosition(container, state), and whether the
\* call threw (createTreeWalker on an undefined wrapper is outside every try)
restoreCursorPosition(wrappers, state, sel) ==
    IF OutOfRange(state.blockIndex, Len(wrappers))
    THEN [ selection |-> sel, threw |-> FALSE ]
    ELSE IF state.blockIndex >= Len(wrappers)
    THEN [ selection |-> sel, threw |-> TRUE ]
    ELSE [ selection |-> WalkText(TextNodes(wrappers[state.blockIndex + 1]), 1,
                                  state.textOffset, state.blockIndex),
           threw |-> FALSE ]

\* live trees of the harness: wrappers with one text block, with two (Enter was
\* pressed), with an image, with an empty paragraph; one tree without wrappers
CursorDoms ==
    { << << << mkBlock("p", 1, FALSE, FALSE, 0, << >>, << "a", "a", " ", "a", "a" >>) >>,
            << mkBlock("img", 2, FALSE, FALSE, 40, << >>, << >>) >> >>,
         << << mkBlock("p", 3, FALSE, FALSE, 0, << >>, << "a", " ", "a" >>),
               mkBlock("p", 3, FALSE, FALSE, 0, << >>, << "a" >>) >> >> >>,
       << << << mkBlock("p", 1, FALSE, FALSE, 0, << >>, << >>) >>,
             << mkBlock("p", 2, FALSE, FALSE, 0, << >>, << "a", " ", "a" >>) >> >> >>,
       << >> }

InitCursor ==
    /\ blocks = << >>
    /\ contentHeight \in ContentHeights
    /\ measurements = << >>
    /\ engResult = NoResult
    /\ run1 = << >>
    /\ recombined = << >>
    /\ run2 = << >>
    /\ recombined2 = << >>
    /\ phase = "init"
    /\ splitIdCounter = 0
    /\ pages = << >>
    /\ pagesRef = << >>
    /\ dom \in CursorDoms
    /\ editingBlockIndex = -1
    /\ timers = 0
    /\ debounceTimer = "null"
    /\ isRePaginating = FALSE
    /\ pendingCursor = FALSE
    /\ rafPending = 0
    /\ passResult = "none"
    /\ paginationOut = NoResult
    /\ contentOut = << >>
    /\ currentHTMLRef = << >>
    /\ ops = 0
    /\ EditableDetached
    /\ selection \in Selections(Wrappers(dom)) \cup { NoSelection, OutsideSelection }
    /\ cursorState \in { NoCursor }
          \cup { [ blockIndex |-> b, textOffset |-> t ] :
                   b \in 0..MaxCursorBlock, t \in 0..MaxTextOffset }
    /\ returned = NoReturn

\* saveCursorPosition(container)
SaveCursor ==
    /\ phase = "init"
    /\ cursorState' = saveCursorPosition(Wrappers(dom), selection)
    /\ returned' = [ call |-> "saveCursorPosition", threw |-> FALSE ]
    /\ phase' = "saved"
    /\ UNCHANGED << measurements, contentHeight, engResult, blocks, run1, recombined,
                    run2, recombined2, splitIdCounter, viewVars, emVars, selection >>

\* restoreCursorPosition(container, cursorState), called with a CursorState as
\* the observer effect does
RestoreCursor ==
    /\ phase \in {"init", "saved"}
    /\ cursorState # NoCursor
    /\ \E r \in { restoreCursorPosition(Wrappers(dom), cursorState, selection) } :
          /\ selection' = r.selection
          /\ returned' = [ call |-> "restoreCursorPosition", threw |-> r.threw ]
    /\ phase' = "restored"
    /\ UNCHANGED << measurements, contentHeight, engResult, blocks, run1, recombined,
                    run2, recombined2, splitIdCounter, viewVars, emVars, cursorState >>

NextCursor == SaveCursor \/ RestoreCursor

SpecCursor == InitCursor /\ [][NextCursor]_vars

Next ==
    \/ RunPagination
    \/ UserEdit
    \/ TimerFire
    \/ AnimationFrame
    \/ GetHTML
    \/ AddBlock
    \/ DeleteBlock
    \/ OpenEditor
    \/ SaveHTML
    \/ CancelEditor
    \/ InsertPageBreak
    \/ AttachEditing
    \/ EmMutation
    \/ EmTimerFire
    \/ Detach
    \/ Undo
    \/ Redo
    \/ HandleUndo
    \/ HandleRedo

Spec == InitView /\ [][Next]_vars

\* the browser runs every requested animation frame callback
SpecLive == InitView /\ [][Next]_vars /\ WF_vars(AnimationFrame)

\* C10: in every reachable state of the paged view, blocks that carry the same
\* splitId are adjacent in block order and are fragments of the same original block.
C10_SplitIdAdjacent ==
    LET flat == Flatten(pages)
    IN  \A i, j \in 1..Len(flat) :
            (i < j /\ flat[i].sid # 0 /\ flat[i].sid = flat[j].sid) =>
                /\ flat[i].id = flat[j].id
                /\ \A k \in i..j : flat[k].sid = flat[i].sid

\* =================================================================== claims
PageHeight(page) == SumSeq([ k \in 1..Len(page) |-> Height(page[k]) ])

EngineDone == phase # "init"
Run1Done == phase \in {"run1", "recombined", "run2"}

\* C1: the fragments of all pages of a split-aware run, recombined, are the
\* recombined input list: every input block once, in order, as one block.
C1_ContentPreserved ==
    phase \in {"recombined", "run2"} => recombined = recombineSplitBlocks(blocks)

\* heights of the blocks of an engine page
EnginePageHeights(pg) ==
    [ k \in 1..Len(pg.blockIndices) |-> measurements[pg.blockIndices[k] + 1].height ]

\* C2: every page of PageLayoutEngine.paginate has total height <= contentHeight
\* unless it holds exactly one block that alone exceeds contentHeight.
C2_HeightBound ==
    EngineDone =>
        \A p \in 1..Len(engResult.pages) :
            LET hs == EnginePageHeights(engResult.pages[p])
            IN  \/ SumSeq(hs) <= contentHeight
                \/ Len(hs) = 1 /\ hs[1] > contentHeight

C2_Witness ==
    /\ EngineDone
    /\ \E p, q \in 1..Len(engResult.pages) :
          LET hp == EnginePageHeights(engResult.pages[p])
              hq == EnginePageHeights(engResult.pages[q])
          IN  /\ Len(hp) = 1 /\ hp[1] > contentHeight
              /\ Len(hq) = 2 /\ hq[1] > 0 /\ hq[2] > 0

\* available heights the paginator can hand to trySplitBlock
AvailHeights == { SPLIT_THRESHOLD, contentHeight }

\* C3: the first fragment of every split fits the available height, whatever the
\* child heights, hence every page closed right after a first fragment has
\* total height <= contentHeight.
C3_FirstFragmentFits ==
    Run1Done =>
        /\ \A k \in 1..Len(blocks) : \A a \in AvailHeights :
              LET r == trySplitBlock(blocks[k], a, 1)
              IN  (Len(blocks[k].kids) > 1 /\ r.ok) => Height(r.firstHTML) <= a
        /\ \A p \in 1..Len(run1) :
              LET pg == run1[p]
              IN  (Len(pg) > 0 /\ pg[Len(pg)].sid # 0 /\ pg[Len(pg)].part = 0)
                      => PageHeight(pg) <= contentHeight

\* C4: in both paginators a block with breakBefore is the first block of its page.
C4_BreakBeforeFirst ==
    /\ EngineDone =>
          \A p \in 1..Len(engResult.pages) :
              \A k \in 2..Len(engResult.pages[p].blockIndices) :
                  ~measurements[engResult.pages[p].blockIndices[k] + 1].breakBefore
    /\ Run1Done =>
          \A p \in 1..Len(run1) : \A k \in 2..Len(run1[p]) : ~run1[p][k].bb

\* a breakBefore block follows a block it would share a page with
C4_Witness ==
    /\ Run1Done
    /\ \E i \in 2..Len(blocks) :
          /\ blocks[i].bb /\ ~blocks[i - 1].ba /\ ~blocks[i - 1].bb
          /\ Height(blocks[i]) > 0
          /\ Height(blocks[i - 1]) > 0
          /\ Height(blocks[i - 1]) + Height(blocks[i]) <= contentHeight
          /\ Len(run1) = 2 /\ Len(engResult.pages) = 2

\* C5: in both paginators a block with breakAfter is the last block of its page
\* (so its successor starts a fresh page); when the block is split, the forced
\* page end falls after its last fragment.
C5_BreakAfterLast ==
    /\ EngineDone =>
          \A p \in 1..Len(engResult.pages) :
              \A k \in 1..Len(engResult.pages[p].blockIndices) :
                  measurements[engResult.pages[p].blockIndices[k] + 1].breakAfter
                      => k = Len(engResult.pages[p].blockIndices)
    /\ Run1Done =>
          \A p \in 1..Len(run1) : \A k \in 1..Len(run1[p]) :
              run1[p][k].ba => k = Len(run1[p])

\* a breakAfter block is split and its last fragment would share a page with
\* the block that follows
C5_Witness ==
    /\ Run1Done
    /\ Len(blocks) = 2 /\ blocks[1].ba /\ ~blocks[2].bb
    /\ Len(run1) >= 3
    /\ LET last == run1[Len(run1) - 1]
       IN  /\ Len(last) = 1 /\ last[1].sid # 0 /\ last[1].part = 1
           /\ Height(last[1]) + Height(blocks[2]) <= contentHeight

\* C6: both paginators produce at least one page; an empty input gives exactly one
\* empty page, a non-empty input no empty page; pageCount = pages.length.
C6_AtLeastOnePage ==
    /\ EngineDone =>
          /\ engResult.pageCount = Len(engResult.pages)
          /\ Len(engResult.pages) >= 1
          /\ Len(measurements) = 0 => engResult.pages = << [blockIndices |-> << >>] >>
          /\ Len(measurements) > 0 =>
                \A p \in 1..Len(engResult.pages) :
                    Len(engResult.pages[p].blockIndices) > 0
    /\ Run1Done =>
          /\ paginationResultOf(run1).pageCount = Len(paginationResultOf(run1).pages)
          /\ paginationResultOf(run1).pageCount = Len(run1)
          /\ Len(run1) >= 1
          /\ Len(blocks) = 0 => run1 = << << >> >>
          /\ Len(blocks) > 0 => \A p \in 1..Len(run1) : Len(run1[p]) > 0

C6_Witness ==
    /\ Run1Done
    /\ blocks = << >>
    /\ run1 = << << >> >>
    /\ engResult = [ pages |-> << [blockIndices |-> << >>] >>, pageCount |-> 1 ]

\* no available height makes trySplitBlock split b
CannotSplit(b) ==
    \A a \in MIN_SPLIT_HEIGHT..contentHeight : ~trySplitBlock(b, a, 1).ok

\* number of blocks with element identity i on the pages
Occurrences(pgs, i) ==
    SumSeq([ p \in 1..Len(pgs) |->
               Cardinality({ k \in 1..Len(pgs[p]) : pgs[p][k].id = i }) ])

\* C7: a block taller than contentHeight that cannot be split is never dropped: in
\* both paginators it appears exactly once, on a page with no other block.
C7_OversizedAlone ==
    \A i \in 1..Len(blocks) :
        (Height(blocks[i]) > contentHeight /\ CannotSplit(blocks[i])) =>
            /\ EngineDone =>
                  /\ Cardinality({ p \in 1..Len(engResult.pages) :
                         \E k \in 1..Len(engResult.pages[p].blockIndices) :
                             engResult.pages[p].blockIndices[k] = i - 1 }) = 1
                  /\ \A p \in 1..Len(engResult.pages) :
                         (\E k \in 1..Len(engResult.pages[p].blockIndices) :
                             engResult.pages[p].blockIndices[k] = i - 1)
                         => engResult.pages[p].blockIndices = << i - 1 >>
            /\ Run1Done =>
                  /\ Occurrences(run1, i) = 1
                  /\ \A p \in 1..Len(run1) :
                         (\E k \in 1..Len(run1[p]) : run1[p][k].id = i)
                         => run1[p] = << blocks[i] >>

\* Scenario 2 (heights [1500], contentHeight 1000 -> [[0]]) in both paginators
C7_Witness ==
    /\ Run1Done
    /\ blocks = Scenario2
    /\ contentHeight = 1000
    /\ engResult = [ pages |-> << [blockIndices |-> << 0 >>] >>, pageCount |-> 1 ]
    /\ run1 = << Scenario2 >>

\* an oversized unsplittable block between two blocks that fit
C7_WitnessNeighbours ==
    /\ Run1Done
    /\ Len(blocks) = 2
    /\ Height(blocks[2]) > contentHeight /\ CannotSplit(blocks[2])
    /\ ~blocks[1].ba /\ ~blocks[2].bb /\ Height(blocks[1]) > 0

\* index of the page of an engine result that holds block index i
EnginePageOf(i) ==
    CHOOSE p \in 1..Len(engResult.pages) :
        \E k \in 1..Len(engResult.pages[p].blockIndices) :
            engResult.pages[p].blockIndices[k] = i

\* accumulated height of the current page when block i (0-based, i > 0) is reached:
\* the blocks of the page of block i-1 up to block i-1
Accumulated(i) ==
    LET pg == engResult.pages[EnginePageOf(i - 1)].blockIndices
    IN  SumSeq([ k \in 1..Len(pg) |->
                   IF pg[k] < i THEN measurements[pg[k] + 1].height ELSE 0 ])

StartsPage(i) ==
    \E p \in 1..Len(engResult.pages) :
        /\ Len(engResult.pages[p].blockIndices) > 0
        /\ engResult.pages[p].blockIndices[1] = i

\* C8: PageLayoutEngine.paginate returns the greedy first-fit partition: the
\* indices over the pages are 0..n-1 in order and block i starts a page iff i = 0,
\* or it has breakBefore, or block i-1 has breakAfter, or the accumulated height
\* plus its height exceeds contentHeight.
C8_GreedyPartition ==
    EngineDone =>
        LET n == Len(measurements)
            flat == Flatten([ p \in 1..Len(engResult.pages) |->
                                engResult.pages[p].blockIndices ])
        IN  /\ flat = [ k \in 1..n |-> k - 1 ]
            /\ \A i \in 0..n - 1 :
                  StartsPage(i) <=>
                      \/ i = 0
                      \/ measurements[i + 1].breakBefore
                      \/ i > 0 /\ measurements[i].breakAfter
                      \/ i > 0 /\ Accumulated(i) + measurements[i + 1].height
                                      > contentHeight

\* Scenario 1: heights [300, 400, 500], contentHeight 1000 -> [[0, 1], [2]]
C8_Witness ==
    /\ EngineDone
    /\ measurements = Scenario1
    /\ contentHeight = 1000
    /\ engResult = [ pages |-> << [blockIndices |-> << 0, 1 >>],
                                  [blockIndices |-> << 2 >>] >>,
                     pageCount |-> 2 ]

\* C9: paginating, recombining the fragments and paginating the recombined list
\* again gives the same per-page block counts as the first run.
C9_IdempotentRepagination ==
    phase = "run2" => Dist(run2) = Dist(run1)

(**************************************************************************)
(* Split markers, recombination and the splitter's refusals               *)
(**************************************************************************)

\* No data-dopecanvas-split-id / split-part attribute on the block's own
\* element or on any element nested in it.
MarkerFree(b) ==
    /\ b.sid = 0
    /\ b.part = 0
    /\ \A k \in 1..Len(b.kmark) : b.kmark[k] = 0

\* C11: split markers exist only in the paginated view: the HTML handed to
\* the host (getHTML, onContentChange) and every list fed to a full
\* pagination carries no split-id or split-part attribute.
C11_NoMarkerLeavesView ==
    phase = "mounted" =>
        /\ \A k \in 1..Len(contentOut) : MarkerFree(contentOut[k])
        /\ \A k \in 1..Len(getHTML) : MarkerFree(getHTML[k])

\* C12: recombineSplitBlocks is idempotent, and it returns a list in which no
\* block carries a split marker unchanged.
C12_RecombineIdempotent ==
    /\ phase = "twice" => recombined2 = recombined
    /\ phase \in {"once", "twice"} =>
          ((\A k \in 1..Len(blocks) : blocks[k].sid = 0) => recombined = blocks)

\* end (exclusive) of the maximal run of adjacent blocks whose own element
\* carries the marker splitId
RECURSIVE MarkedRunEnd(_, _, _)
MarkedRunEnd(list, j, splitId) ==
    IF j <= Len(list) /\ list[j].sid = splitId
    THEN MarkedRunEnd(list, j + 1, splitId)
    ELSE j

\* the first fragment's element without the markers, holding the contents of the
\* fragments in order
MergedRun(parts) ==
    [ parts[1] EXCEPT
        !.sid = 0, !.part = 0,
        !.kids = Flatten([ k \in 1..Len(parts) |-> parts[k].kids ]),
        !.kmark = Flatten([ k \in 1..Len(parts) |-> parts[k].kmark ]),
        !.text = Flatten([ k \in 1..Len(parts) |-> parts[k].text ]) ]

\* the list the recombination is described to give: every maximal run of
\* fragments with one splitId replaced by one block, every block without a
\* marker kept as it is
RECURSIVE MergedRuns(_, _)
MergedRuns(list, i) ==
    IF i > Len(list) THEN << >>
    ELSE IF list[i].sid = 0 THEN << list[i] >> \o MergedRuns(list, i + 1)
    ELSE Bind(MarkedRunEnd(list, i + 1, list[i].sid),
              LAMBDA j : << MergedRun(SubSeq(list, i, j - 1)) >>
                             \o MergedRuns(list, j))

\* C13: recombineSplitBlocks replaces each maximal run of adjacent fragments
\* sharing a splitId by one block (the first fragment's element without the
\* markers, contents concatenated in order); blocks without a marker pass
\* through unchanged and the relative order is kept.
C13_RecombineMergesRuns ==
    phase \in {"once", "twice"} => recombined = MergedRuns(blocks, 1)

\* available heights on each side of every test of trySplitBlock
ProbeHeights == { 0, MIN_SPLIT_HEIGHT - 1, MIN_SPLIT_HEIGHT, SPLIT_THRESHOLD,
                  contentHeight, 2 * contentHeight }

\* the block is atomic by its tag or is flagged to start a new page
NeverSplit(b) == b.tag \in UNSPLITTABLE_TAGS \/ b.bb

\* C14: trySplitBlock returns null for every availableHeight when the block's
\* tag is atomic or the block is flagged break-before: page; no page of the
\* split-aware paginator holds a fragment of such a block.
C14_NeverSplitAtomic ==
    /\ \A k \in 1..Len(blocks) :
          NeverSplit(blocks[k]) =>
              \A a \in ProbeHeights : ~trySplitBlock(blocks[k], a, 1).ok
    /\ Run1Done =>
          \A p \in 1..Len(run1) : \A k \in 1..Len(run1[p]) :
              run1[p][k].sid # 0 => ~NeverSplit(blocks[run1[p][k].id])

\* an oversized <figure> with three children and an oversized break-before
\* container with several children, each left whole on a page of its own
C14_Witness ==
    /\ Run1Done
    /\ Len(blocks) = 2
    /\ blocks[1].tag = "figure" /\ ~blocks[1].bb /\ Len(blocks[1].kids) > 1
    /\ Height(blocks[1]) > contentHeight
    /\ blocks[2].tag = "div" /\ blocks[2].bb /\ Len(blocks[2].kids) > 1
    /\ Height(blocks[2]) > contentHeight
    /\ run1 = << << blocks[1] >>, << blocks[2] >> >>

Whitespace == {" ", "\n", "tab", "nbsp"}

\* the fragment has no element child and no text but whitespace
EmptyFragment(b) ==
    /\ Len(b.kids) = 0
    /\ \A k \in 1..Len(b.text) : b.text[k] \in Whitespace

\* C15: no fragment returned by trySplitBlock is empty after trimming
\* whitespace, under either strategy; a split point that would leave a half
\* without content gives null.
C15_NoEmptyFragment ==
    /\ \A k \in 1..Len(blocks) :
          \A a \in ProbeHeights :
              LET r == trySplitBlock(blocks[k], a, 1)
              IN  r.ok => ~EmptyFragment(r.firstHTML) /\ ~EmptyFragment(r.secondHTML)
    /\ Run1Done =>
          \A p \in 1..Len(run1) : \A k \in 1..Len(run1[p]) :
              run1[p][k].sid # 0 => ~EmptyFragment(run1[p][k])

\* a paragraph " aaa" after a 40px block: the word boundary before the crossing
\* is offset 1, which would leave the first half " "; the paragraph is not split
C15_Witness ==
    /\ Run1Done
    /\ Len(blocks) = 2
    /\ Height(blocks[1]) = MIN_SPLIT_HEIGHT /\ ~blocks[1].ba
    /\ blocks[2].tag = "p" /\ ~blocks[2].bb
    /\ blocks[2].text = << " ", "a", "a", "a" >>
    /\ WordBound(blocks[2].text,
                 BinarySearch(0, Len(blocks[2].text),
                              contentHeight - MIN_SPLIT_HEIGHT)) = 1
    /\ ~trySplitBlock(blocks[2], contentHeight - MIN_SPLIT_HEIGHT, 1).ok
    /\ run1 = << << blocks[1] >>, << blocks[2] >> >>

\* characters at which a line of text may be broken
Blank == {" ", "\n", "tab"}

\* offset off (1 <= off < Len(text)) lies between two non-blank characters
MidWord(text, off) ==
    /\ off >= 1 /\ off < Len(text)
    /\ text[off] \notin Blank /\ text[off + 1] \notin Blank

\* length of the run of non-blank characters around offset off
RECURSIVE WordStart(_, _)
WordStart(text, i) ==
    IF i > 1 /\ text[i - 1] \notin Blank THEN WordStart(text, i - 1) ELSE i

RECURSIVE WordEnd(_, _)
WordEnd(text, i) ==
    IF i < Len(text) /\ text[i + 1] \notin Blank THEN WordEnd(text, i + 1) ELSE i

WordHeight(text, off) ==
    Lines(WordEnd(text, off) - WordStart(text, off) + 1) * LineHeight

\* C16: a text-boundary split never falls strictly inside a run of
\* non-whitespace characters unless that run alone exceeds the available
\* height.
C16_WordBoundarySafe ==
    Run1Done =>
        \A k \in 1..Len(blocks) : \A a \in AvailHeights :
            LET r == trySplitBlock(blocks[k], a, 1)
                off == Len(r.firstHTML.text)
            IN  (blocks[k].tag = "p" /\ r.ok /\ MidWord(blocks[k].text, off))
                    => WordHeight(blocks[k].text, off) > a

(**************************************************************************)
(* Live re-pagination: change detection and debouncing                    *)
(**************************************************************************)

\* the content of a block, whatever split marker its element carries
Unmarked(b) == [ b EXCEPT !.sid = 0, !.part = 0 ]

\* the blocks shown on live page p / assigned to page p by the cached partition
LivePage(p) == [ k \in 1..Len(CollectRaw(dom[p])) |-> Unmarked(CollectRaw(dom[p])[k]) ]

CachedPage(p) == [ k \in 1..Len(pagesRef[p]) |-> Unmarked(pagesRef[p][k]) ]

\* C17: when a re-pagination pass finds the old and the new per-page block
\* counts equal, no block and no split point has moved: every live page shows
\* exactly the content the new partition assigns to it.
C17_SameCountsSameContent ==
    passResult = "same" =>
        /\ Len(dom) = Len(pagesRef)
        /\ \A p \in 1..Len(dom) : LivePage(p) = CachedPage(p)

\* a step in which the debounce timer fired and the pass ran to its end
PassStep == timers' = timers - 1 /\ passResult' \in {"same", "commit"}

\* C18: at the end of a re-pagination pass the new partition is committed
\* (pages state replaced, onPaginationChange called) iff its per-page block
\* counts differ from the previous partition's; when they are equal the pages
\* state and the rendered tree stay as they are and only the cached partition
\* is replaced.
C18_CommitIffCountsDiffer ==
    [][ PassStep =>
          IF Dist(pagesRef') # Dist(pagesRef)
          THEN /\ passResult' = "commit"
               /\ pages' = pagesRef'
               /\ paginationOut'.pageCount = Len(pagesRef')
          ELSE /\ passResult' = "same"
               /\ pages' = pages
               /\ dom' = dom
               /\ paginationOut' = paginationOut ]_vars

\* a pass that found equal counts and replaced only the cached partition
C18_Witness ==
    /\ passResult = "same"
    /\ pagesRef # pages
    /\ Dist(pagesRef) = Dist(pages)

\* a step in which the user changed the live tree (the observer was notified)
EditStep == ops' = ops + 1 /\ dom' # dom /\ pages' = pages /\ pagesRef' = pagesRef

\* C19: an edit notification that arrives while a pass is in flight or
\* committing is not lost: the debounce timer is (re)started, so a later pass
\* processes the edit.
C19_EditNotLost ==
    [][ EditStep => timers' >= 1 /\ debounceTimer' = "pending" ]_vars

\* a step in which the attached EditableManager observed a mutation
EmEditStep == ops' = ops + 1 /\ emHTML' # emHTML

\* C20: at most one debounce timer is pending per mounted view and per
\* attached EditableManager; a mutation observed while a timer is pending
\* cancels it and starts a new one, so a burst of mutations ends in one pass
\* (one change notification).
C20_SingleDebounceTimer ==
    /\ [](timers <= 1 /\ emTimers <= 1)
    /\ [][ /\ (EditStep /\ timers = 1) => timers' = 1 /\ debounceTimer' = "pending"
           /\ (EmEditStep /\ emTimers = 1) =>
                  emTimers' = 1 /\ emDebounceTimer' = "pending" ]_vars

\* two mutations of the attached container in a burst, then the timer fired
\* once: one change notification, the last content stored
C20_Witness ==
    /\ phase = "editing"
    /\ emAttached
    /\ emCallbacks = 1
    /\ ops = 2
    /\ emTimers = 0
    /\ emNotified = 1
    /\ sourceHTML = emHTML

(**************************************************************************)
(* Caret, handle calls, zero-height blocks, purity                        *)
(**************************************************************************)

\* number of characters of text in the wrapper with 0-based index b
BlockTextLength(b) == SumSeq(TextNodes(Wrappers(dom)[b + 1]))

\* a step in which restoreCursorPosition(container, cursorState) was called
RestoreStep == phase # "restored" /\ phase' = "restored"

\* C21: restoreCursorPosition places the caret in the block at blockIndex,
\* textOffset characters into its text, at the end of the block when the text
\* is shorter; with blockIndex beyond the blocks nothing changes; it never
\* throws; restoring a position just saved on an unchanged tree gives the same
\* (blockIndex, textOffset).
C21_RestoreCursor ==
    [][ RestoreStep =>
          /\ ~returned'.threw
          /\ IF cursorState.blockIndex >= Len(Wrappers(dom))
             THEN selection' = selection
             ELSE /\ selection'.w = cursorState.blockIndex
                  /\ IF cursorState.textOffset <= BlockTextLength(cursorState.blockIndex)
                     THEN textOffsetOf(Wrappers(dom), selection')
                              = cursorState.textOffset
                     ELSE textOffsetOf(Wrappers(dom), selection')
                              = BlockTextLength(cursorState.blockIndex)
          /\ phase = "saved" =>
                saveCursorPosition(Wrappers(dom), selection') = cursorState ]_vars

\* a caret four characters into a wrapper of two paragraphs is restored into
\* the second text node (the first holds three characters)
C21_Witness ==
    /\ phase = "restored"
    /\ returned = [ call |-> "restoreCursorPosition", threw |-> FALSE ]
    /\ \E b \in 0..Len(Wrappers(dom)) - 1 :
          /\ Len(TextNodes(Wrappers(dom)[b + 1])) = 2
          /\ cursorState = [ blockIndex |-> b, textOffset |-> 4 ]
          /\ selection = [ w |-> b, node |-> 2, off |-> 1 ]

\* the blocks of the live tree in document order: the element of each wrapper,
\* the children of a wrapper with several elements kept together as one block
RECURSIVE LiveBlocks(_)
LiveBlocks(ws) ==
    IF ws = << >> THEN << >>
    ELSE (IF Len(Head(ws)) = 0 THEN << >>
          ELSE IF Len(Head(ws)) = 1 THEN << Head(ws)[1] >>
          ELSE << wrapDiv(Head(ws)) >>)
         \o LiveBlocks(Tail(ws))

\* C22: in paged mode getHTML() returns the blocks currently in the live tree,
\* in document order; an edit of a live block shows at once, without the
\* debounced collection; with no edit every loaded block is present.
C22_GetHTMLIsLive ==
    (phase = "mounted" /\ Len(Wrappers(dom)) > 0) =>
        getHTML = LiveBlocks(Wrappers(dom))

\* C23: a block of measured height 0 without breakBefore never starts a page:
\* in both paginators it is on the page of the block before it, unless that
\* block has breakAfter, whatever the height accumulated on the page.
C23_ZeroHeightFits ==
    \A i \in 2..Len(blocks) :
        (Height(blocks[i]) = 0 /\ ~blocks[i].bb /\ ~blocks[i - 1].ba) =>
            /\ EngineDone => EnginePageOf(i - 1) = EnginePageOf(i - 2)
            /\ Run1Done =>
                  \A p \in 1..Len(run1) :
                      (\E k \in 1..Len(run1[p]) : run1[p][k].id = i)
                      => \E k \in 1..Len(run1[p]) : run1[p][k].id = i - 1


\* C24: every PaginationResult handed to onPaginationChange has
\* pageCount = pages.length, and the blockIndices of its pages, concatenated in
\* page order, are 0..n-1 once each, n being the number of rendered blocks.
DeliveredIndices(result) ==
    Flatten([ k \in 1..Len(result.pages) |-> result.pages[k].blockIndices ])

C24_ResultIndexesBlocks ==
    [][ paginationOut' # paginationOut =>
            /\ paginationOut'.pageCount = Len(paginationOut'.pages)
            /\ DeliveredIndices(paginationOut') =
                   [ j \in 1..Len(Flatten(pagesRef')) |-> j - 1 ] ]_vars


\* C25: through the handle of a mounted DopeCanvas, undo() returns true (and
\* reverts the last user edit) when the user has edited a block of the live
\* tree (the view's observer saw the edit); it returns false only when there is
\* no edit to undo.
C25_HandleUndoReverts ==
    [][ (phase = "mounted" /\ debounceTimer = "pending" /\ returned' # returned
         /\ returned'.call = "undo") => returned'.value = TRUE ]_vars


\* C26: PageLayoutEngine.paginate and trySplitBlock are pure: two calls with
\* the same inputs return the same result and no call writes state that
\* another call reads.
C26_PureFunctions ==
    /\ EngineDone => engResult = paginate(measurements, contentHeight)
    /\ \A k \in 1..Len(blocks) : \A a \in ProbeHeights :
          LET c1 == callTrySplitBlock(blocks[k], a, splitIdCounter)
              c2 == callTrySplitBlock(blocks[k], a, c1.counter)
          IN  /\ c1.counter = splitIdCounter
              /\ c2.result = c1.result


\* position i opens a run of recombineSplitBlocks: the block is marked and the
\* block before it is unmarked or carries another splitId
OpensRun(L, i) ==
    /\ extractSplitId(L[i]) # 0
    /\ i > 1 => extractSplitId(L[i - 1]) # extractSplitId(L[i])

\* the run of same-splitId fragments that position i opens
RunAt(L, i) == SubSeq(L, i, RunEnd(L, i + 1, extractSplitId(L[i])) - 1)

HasUnparsable(run) == \E k \in 1..Len(run) : ~Parses(run[k])

\* C27: for a run of same-splitId fragments that contains a fragment whose
\* markup does not parse into an element, recombineSplitBlocks returns the
\* first fragment of the run, unmodified.
C27_UnparsableRunKeepsFirst ==
    phase \in {"once", "twice"} =>
        /\ \A i \in 1..Len(blocks) :
              (OpensRun(blocks, i) /\ HasUnparsable(RunAt(blocks, i))) =>
                  mergeBlockParts(RunAt(blocks, i)) = blocks[i]
        /\ (Len(blocks) > 0 /\ OpensRun(blocks, 1) /\ HasUnparsable(blocks)
            /\ RunAt(blocks, 1) = blocks) => recombined = << blocks[1] >>


\* the block was put on its page as a queue item: a whole block or the second
\* half of a split (a first half is put there by the split itself)
QueueItem(b) == ~(b.sid # 0 /\ b.part = 0)

\* C28: in the split-aware paginator a block taller than contentHeight that is
\* the first element of a page (the page was empty, or was opened because the
\* block did not fit) was offered to trySplitBlock against the full
\* contentHeight; it is there whole only if that split fails.
C28_OversizedFirstIsSplit ==
    Run1Done =>
        \A p \in 1..Len(run1) :
            (/\ Len(run1[p]) > 0
             /\ QueueItem(run1[p][1])
             /\ Height(run1[p][1]) > contentHeight)
            => ~trySplitBlock(run1[p][1], contentHeight, 1).ok


\* 1-based position of the first child whose bottom offset exceeds
\* availableHeight, 0 if no child's does
FirstExceeding(children, availableHeight) ==
    LET over == { k \in 1..Len(children) :
                    SumSeq(SubSeq(children, 1, k)) > availableHeight }
    IN  IF over = {} THEN 0 ELSE CHOOSE k \in over : \A m \in over : k <= m

\* C29: the child-boundary strategy splits at the first child whose bottom
\* offset exceeds availableHeight (that child and the later ones form the second
\* fragment, the earlier ones the first); when that child is child 0, or no
\* child exceeds, the child-boundary split is rejected.
C29_SplitAtFirstExceeding ==
    \A k \in 1..Len(blocks) : \A a \in ProbeHeights :
        LET children == blocks[k].kids
            x == FirstExceeding(children, a)
            r == splitAtChildBoundary(blocks[k], children, a, 1)
        IN  Len(children) > 1 =>
                IF x <= 1 THEN ~r.ok
                ELSE /\ r.ok
                     /\ r.firstHTML.kids = SubSeq(children, 1, x - 1)
                     /\ r.secondHTML.kids = SubSeq(children, x, Len(children))


\* C30: in every reachable state of an attached EditableManager, also while a
\* debounced mutation is not yet snapshotted: if undo() returns true, a redo()
\* right after it returns true and the container holds again the HTML it held
\* just before undo().
C30_UndoThenRedoRestores ==
    (phase = "editing" /\ emAttached) =>
        LET u == undo(emAttached, emHTML, undoStack, redoStack)
            r == redo(emAttached, u.html, u.undo, u.redo)
        IN  u.value => (r.value /\ r.html = emHTML)


\* ======================== Flag, subscriptions, thresholds, caret, termination
\* C31: whenever a live re-pagination commit has set the re-paginating flag, the
\* flag is eventually cleared (by the re-render's effect, or by the next
\* animation frame when a caret is pending): a set flag always has a frame
\* callback pending that clears it.
C31_FlagEventuallyCleared ==
    /\ [](isRePaginating => rafPending > 0)
    /\ (isRePaginating ~> ~isRePaginating)

\* a commit with a caret pending has set the flag and requested a frame
C31_Witness ==
    /\ phase = "mounted"
    /\ passResult = "commit"
    /\ isRePaginating
    /\ pendingCursor
    /\ rafPending > 0

\* a step in which the EditableManager's debounce timer fired
EmFireStep == emTimers' = emTimers - 1 /\ emDebounceTimer' = "fired"

\* C32: after any sequence of attachEditing / setContentContainer calls, one
\* debounced content change runs the DocumentEngine's change notification
\* once, so that each subscribed DocumentEngine.onChange callback is invoked
\* exactly once.
C32_NotifiedOncePerChange ==
    [][ EmFireStep => emNotified' = emNotified + 1 ]_vars


\* offset at which the text starts to lie at or below availableHeight
CrossingOffset(text, availableHeight) ==
    LET below == { m \in 0..Len(text) : ProbeTop(m) >= availableHeight }
    IN  IF below = {} THEN Len(text) ELSE CHOOSE m \in below : \A n \in below : m <= n

\* C33: for a block that is a single text run with no whitespace before the
\* offset where the text crosses availableHeight, the text-boundary strategy
\* rejects the split (trySplitBlock returns null): it does not split inside
\* the word.
C33_NoWhitespaceNoSplit ==
    \A k \in 1..Len(blocks) : \A a \in ProbeHeights :
        LET b == blocks[k]
        IN  (/\ b.tag = "p"
             /\ Len(b.kids) = 0
             /\ Height(b) > a
             /\ \A i \in 1..CrossingOffset(b.text, a) : b.text[i] \notin Whitespace)
            => ~trySplitBlock(b, a, 1).ok


\* heights already on the current page when a block is reached: the remaining
\* space is above, at and below 60 px and below the splitter's own minimum
CurrentHeights == { 0, 40, 41, 61 }

\* C34: when a block does not fit the remaining space of a non-empty page, it
\* is split against the remaining space only if that space is at least 60 px
\* and the splitter returns fragments; if the space is below 60 px or the
\* splitter returns null, the page is closed and the whole block is the first
\* element of the next page (nothing is dropped, nothing fails).
C34_SplitOrMoveWhole ==
    \A queue \in { buildQueue(measureBlocks(blocks)) } :
    \A k \in 1..Len(blocks) : \A h \in CurrentHeights :
        LET block == queue[k]
            filler == blocks[1]
            st == [ pages |-> << >>, currentPage |-> << filler >>,
                    currentHeight |-> h, counter |-> splitIdCounter ]
            remainingSpace == contentHeight - h
        IN  (~block.breakBefore /\ block.height > remainingSpace) =>
            \A r \in { SplitStep(queue, contentHeight, k, st) } :
            \A split \in { IF remainingSpace >= 60
                           THEN trySplitBlock(block.element, remainingSpace,
                                              splitIdCounter + 1)
                           ELSE NoSplit } :
                IF split.ok
                THEN /\ r.st.pages = << << filler, split.firstHTML >> >>
                     /\ r.st.currentPage = << >>
                     /\ Len(r.queue) = Len(queue) + 1
                     /\ r.queue[k + 1].html = split.secondHTML
                ELSE /\ r.queue = queue
                     /\ IF block.breakAfter
                        THEN /\ r.st.pages = << << filler >>, << block.html >> >>
                             /\ r.st.currentPage = << >>
                        ELSE /\ r.st.pages = << << filler >> >>
                             /\ r.st.currentPage = << block.html >>

\* an image that the splitter refuses did not fit the 60 px left on the first
\* page: it is whole and first on the second page
C34_Witness ==
    /\ Run1Done
    /\ Len(blocks) = 2
    /\ blocks[1].tag = "img" /\ blocks[1].h = 40 /\ ~blocks[1].ba
    /\ blocks[2].tag = "img" /\ blocks[2].h = 150 /\ ~blocks[2].bb /\ ~blocks[2].ba
    /\ run1 = << << blocks[1] >>, << blocks[2] >> >>


\* a step in which a requested animation frame callback ran
FrameStep == rafPending' = rafPending - 1

\* C35: on a structural change the caret captured before the commit is kept
\* while the new partition is installed (no older capture is overwritten) and
\* one animation frame is requested for it; the frame restores it and discards
\* it, so every captured caret is restored, and once; a pass that ends without
\* commit neither re-renders nor touches the caret.
C35_CaretRestoredOnce ==
    /\ [](pendingCursor => rafPending > 0)
    /\ (pendingCursor ~> ~pendingCursor)
    /\ [][ /\ (PassStep /\ passResult' = "commit") =>
                 /\ ~pendingCursor
                 /\ pages' = pagesRef'
                 /\ rafPending' = IF pendingCursor' THEN rafPending + 1 ELSE rafPending
           /\ FrameStep => ~pendingCursor'
           /\ (PassStep /\ passResult' = "same") =>
                 /\ dom' = dom /\ pages' = pages
                 /\ pendingCursor' = pendingCursor /\ rafPending' = rafPending ]_vars

\* a commit captured the caret: the new partition is installed and rendered
\* over several pages and exactly one frame is requested to restore the caret
C35_Witness ==
    /\ phase = "mounted"
    /\ passResult = "commit"
    /\ pendingCursor
    /\ rafPending = 1
    /\ pages = pagesRef
    /\ Len(pages) > 1
    /\ Len(dom) = Len(pages)


\* amount of content of a block or fragment: its children and its characters
Content(b) == Len(b.kids) + Len(b.text)

\* the fragments of input block k on the pages of the run, in page order
FragmentsOf(k) ==
    LET OfBlock(f) == f.id = k
    IN  SelectSeq(Flatten(run1), OfBlock)

\* C36: the split-aware loop ends for every finite block list: a split gives a
\* non-empty first fragment and a second fragment with strictly less content
\* than the block, so a block of content c is split less than c times; at the
\* end every queue item is on a page (each input block's fragments, in page
\* order, hold exactly its content).
C36_LoopTerminates ==
    /\ \A k \in 1..Len(blocks) : \A a \in ProbeHeights :
          LET r == trySplitBlock(blocks[k], a, 1)
          IN  r.ok => /\ Content(r.firstHTML) > 0
                      /\ Content(r.secondHTML) < Content(blocks[k])
                      /\ Content(r.firstHTML) + Content(r.secondHTML) = Content(blocks[k])
    /\ Run1Done =>
          /\ \A p \in 1..Len(run1) : \A j \in 1..Len(run1[p]) :
                run1[p][j].id \in 1..Len(blocks)
          /\ \A k \in 1..Len(blocks) :
                LET fr == FragmentsOf(k)
                IN  /\ Len(fr) >= 1
                    /\ Len(fr) = 1 \/ Len(fr) <= Content(blocks[k])
                    /\ Flatten([ j \in 1..Len(fr) |-> fr[j].kids ]) = blocks[k].kids
                    /\ Flatten([ j \in 1..Len(fr) |-> fr[j].text ]) = blocks[k].text

\* a block was split, its second half was queued and split again
C36_Witness ==
    /\ Run1Done
    /\ \E k \in 1..Len(blocks) : Len(FragmentsOf(k)) = 3


\* a step of the debounce callback or of attach() that pushed a snapshot
PushStep ==
    /\ EmFireStep \/ emCallbacks' = emCallbacks + 1
    /\ undoStack' # undoStack

\* what undo() / redo() give when they do nothing
Refused == [ value |-> FALSE, html |-> emHTML, undo |-> undoStack, redo |-> redoStack ]

\* C37: the undo stack never holds more than 100 snapshots nor two equal
\* consecutive snapshots; a pushed snapshot is the container's HTML and empties
\* the redo stack; undo() with at most one snapshot or without container, and
\* redo() with an empty redo stack or without container, return false and
\* leave the stacks and the container as they are.
C37_UndoStackInvariant ==
    /\ [](/\ Len(undoStack) <= 100
          /\ \A i \in 1..Len(undoStack) - 1 : undoStack[i] # undoStack[i + 1]
          /\ (~emAttached \/ Len(undoStack) <= 1) =>
                 undo(emAttached, emHTML, undoStack, redoStack) = Refused
          /\ (~emAttached \/ Len(redoStack) = 0) =>
                 redo(emAttached, emHTML, undoStack, redoStack) = Refused)
    /\ [][ PushStep =>
              /\ redoStack' = << >>
              /\ undoStack'[Len(undoStack')] = emHTML ]_vars

\* the history was full when one more edit was snapshotted: the oldest
\* snapshot is gone, the newest is on top, the redo stack is empty
C37_Witness ==
    /\ phase = "editing"
    /\ Len(undoStack) = MAX_UNDO_STACK
    /\ undoStack[MAX_UNDO_STACK] = 2
    /\ undoStack[1] # Snapshots(MAX_UNDO_STACK)[1]
    /\ redoStack = << >>

\* a wrapper of the live tree that contains text
HoldsText(wrapper) == Len(TextNodes(wrapper)) > 0

\* C38: block collection from the live tree never drops user content: every
\* wrapper that contains text gives an entry of the collected block list and of
\* the list getHTML() returns, whether its content has no, one or several
\* element children.
C38_CollectionKeepsText ==
    phase = "mounted" =>
        LET ws == Wrappers(dom)
            holding == { i \in 1..Len(ws) : HoldsText(ws[i]) }
        IN  /\ \A i \in holding : Len(CollectRaw(<< ws[i] >>)) = 1
            /\ Len(CollectRaw(ws)) >= Cardinality(holding)
            /\ Len(getHTML) >= Cardinality(holding)

\* a step of detach() taken while the manager's debounce timer was pending
DetachStep == emAttached /\ ~emAttached' /\ emDebounceTimer = "pending"

\* a step in which the view's observer effect was cleaned up while its
\* debounce timer was pending
CleanupStep == debounceTimer = "pending" /\ debounceTimer' = "null"

\* C39: detach() and the cleanup of the view's observer effect cancel a pending
\* debounce timer: the step leaves no timer pending, and until the manager is
\* attached again (until the view observes a new edit) no snapshot is pushed,
\* no change callback runs and no re-pagination pass starts.
C39_PendingTimerCancelled ==
    /\ [](/\ ~emAttached => emTimers = 0
          /\ debounceTimer = "null" => timers = 0)
    /\ [][ /\ DetachStep =>
                 /\ emTimers' = 0
                 /\ undoStack' = undoStack
                 /\ emNotified' = emNotified
           /\ (~emAttached /\ ~emAttached') =>
                 /\ ~EmFireStep
                 /\ undoStack' = undoStack
                 /\ emNotified' = emNotified
                 /\ sourceHTML' = sourceHTML
           /\ CleanupStep => timers' = 0
           /\ debounceTimer = "null" => passResult' \notin {"noop", "same", "commit"} ]_vars

\* the manager was detached while an edit waited for its timer: the edit is in
\* the container, not in the history, and no timer is left
C39_Witness ==
    /\ phase = "editing"
    /\ ~emAttached
    /\ emDebounceTimer = "null"
    /\ emTimers = 0
    /\ emNotified = 0
    /\ Len(undoStack) = 1
    /\ emHTML # undoStack[1]

====
